---- MODULE Spec2Model ----
(***************************************************************************)
(* Model of the llm-council deliberation back end: the council streaming   *)
(* pipeline (backend/council_stream.py), the arena stream generator and    *)
(* the pending endpoints (backend/main.py), the pending tracker and the    *)
(* conversation store (backend/storage.py) and the chairman synthesis      *)
(* (backend/council.py).                                                   *)
(*                                                                         *)
(* One conversation is modelled.  A pipeline is an async generator: `pc`   *)
(* names the yield (the event type last emitted) or the await at which it  *)
(* is suspended, and every action runs the code from that point to the     *)
(* next yield or await, storage calls and exception handler included.      *)
(* A storage write that fails raises and leaves the stored file as it was. *)
(* Requests to the conversation are sent one after another: a new stream   *)
(* request or a DELETE pending is sent when no generator is running.       *)
(***************************************************************************)
EXTENDS Integers, Sequences, FiniteSets, TLC

\* ------------------------------------------------------------------ bounds
MaxRequests == 2        \* stream requests sent to the conversation
MaxRounds == 2          \* largest arena round_count tried (the least is 2)
MaxMessages == 3        \* stored messages of the conversation a retry reads
MaxStreams == 2         \* stream requests that can be open at the same time
MaxResponses == 60      \* largest number of Stage 1 responses that are labelled
MaxTokens == 2          \* label mentions in the ranking section of a critique
MaxParticipants == 1    \* responses of a round that is converted to a dict
MaxCalls == 4           \* gateway calls through the shared HTTP client
MaxEvents == 3          \* events the Stage 1 callbacks put on the queue
MaxLines == 3           \* data lines read by one streaming call
MaxStored == 5          \* messages of the conversation file with a legacy message

\* ------------------------------------------------------------- input data
Council == <<"m1", "m2">>                 \* council_models of the conversation
ModelIds == {Council[i] : i \in DOMAIN Council}
ChairmanModel == "chairman"

Answer(m) == IF m = "m1" THEN "answer1" ELSE "answer2"

\* --------------------------------------------------------------- variables
VARIABLES
    messages,        \* conversation["messages"] of the stored conversation
    title,           \* conversation["title"]
    pending,         \* the conversation's entry of pending.json
    pc,              \* where the generator is suspended; "idle" when none runs
    req,             \* the request the running generator was created for
    can_resume,      \* run_council_pipeline: can_resume
    stage1_results,  \* run_council_pipeline: stage1_results
    s1todo,          \* Stage 1 models whose call has not completed yet
    stage2_results,  \* run_council_pipeline: stage2_results
    stage3_result,   \* run_council_pipeline: stage3_result
    title_task,      \* run_council_pipeline / arena: title_task is not None
    rounds,          \* arena_event_generator: rounds
    round_events,    \* arena: the data of the round events yielded so far
    trace,           \* per run, in order: events yielded, collaborators called
    chairman,        \* what the chairman call saw and answered in this run
    outcome,         \* how the last generator ended
    nreq,            \* number of requests sent so far
    call,            \* gateway: the call being made and its arguments
    gpc,             \* gateway: where the called function is suspended
    task,            \* gateway: per model, the state of its query_model call
    done,            \* query_models_progressive: done, not yet iterated
    pending_tasks,   \* query_models_progressive: pending
    completed_models,\* query_models_progressive: completed_models
    completion,      \* the models in the order their calls terminated
    results,         \* query_models_*: the result dict being built
    returned,        \* gateway: the value the call returned
    rpc,             \* retry: where retry_stage3_pipeline is suspended
    open_runs,       \* retry: runs that have not stored their answer yet
    retry_trace,     \* retry: events yielded and collaborators called
    retry_local,     \* retry: the local variables of retry_stage3_pipeline
    epc,             \* extend: where extend_event_generator is suspended
    extend_trace,    \* extend: events yielded and collaborators called
    extend_local,    \* extend: what the endpoint and its generator hold
    streams,         \* per stream request: its response and its generator
    shutting_down,   \* ShutdownCoordinator._shutting_down
    now,             \* tracker: datetime.now(timezone.utc), in seconds
    marker,          \* tracker: the conversation's entry of pending.json
    tracker_call,    \* tracker: the last call made to the pending tracker
    auth_call,       \* auth: the last request given to get_current_user
    labels_call,     \* labels: the last list of responses that was labelled
    rankings_call,   \* rankings: the call of calculate_aggregate_rankings
    roundtrip_call,  \* deliberation: a result, its dict and what is read back
    file,            \* storage: the conversation file of an older conversation
    shared_client,   \* openrouter: the module-level _shared_client
    calls,           \* the gateway calls made, each with its timeout and the one in effect
    streaming_call,  \* openrouter: one call of query_model_streaming, with the lines received
    fanout,          \* openrouter: one call of a fan-out function, its tasks and callbacks
    bridge,          \* council_stream: the queue of _stream_stage1, its producer and consumer
    pending_file,    \* storage: pending.json of the user, one entry per conversation
    tracker_op       \* the tracker operations under way, and the file before the last one

store == <<messages, title, pending>>
local == <<req, can_resume, stage1_results, s1todo, stage2_results,
           stage3_result, title_task, rounds, round_events, chairman>>
pipeline == <<messages, title, pending, pc, req, can_resume,
              stage1_results, s1todo, stage2_results, stage3_result,
              title_task, rounds, round_events, trace, chairman, outcome, nreq>>
gateway == <<call, gpc, task, done, pending_tasks, completed_models,
             completion, results, returned>>
retry == <<rpc, open_runs, retry_trace, retry_local>>
aux == <<epc, extend_trace, extend_local, streams, shutting_down, now, marker,
         tracker_call, auth_call, labels_call, rankings_call, roundtrip_call,
         file, shared_client, calls, streaming_call, fanout, bridge,
         pending_file, tracker_op>>
vars == <<pipeline, gateway, retry, aux>>

\* ------------------------------------------------------------ sequences
Last(s) == s[Len(s)]
Range(s) == {s[i] : i \in DOMAIN s}
RECURSIVE Restrict(_, _)
\* the subsequence of s whose elements are in S (order kept)
Restrict(s, S) ==
    IF s = <<>> THEN <<>>
    ELSE IF s[1] \in S THEN <<s[1]>> \o Restrict(Tail(s), S)
         ELSE Restrict(Tail(s), S)
Indexes(s, x) == {i \in DOMAIN s : s[i] = x}

\* ------------------------------------------------------- conversation store
NoSynthesis == [model |-> "none", response |-> "none", metrics |-> "none"]

UserMessage(content) ==
    [role |-> "user", mode |-> "none", content |-> content,
     rounds |-> <<>>, synthesis |-> NoSynthesis,
     metrics |-> [calls |-> 0, stage3 |-> "none"]]

\* DeliberationResult.to_dict() plus role, as add_unified_message stores it
UnifiedMessage(m, rs, synth, metrics) ==
    [role |-> "assistant", mode |-> m, content |-> 0,
     rounds |-> rs, synthesis |-> synth, metrics |-> metrics]

add_user_message(msgs, content) == Append(msgs, UserMessage(content))

add_unified_message(msgs, result) == Append(msgs, result)

remove_last_user_message(msgs) ==
    IF msgs # <<>> /\ Last(msgs).role = "user"
    THEN SubSeq(msgs, 1, Len(msgs) - 1)
    ELSE msgs

\* ---------------------------------------------------------- pending tracker

\* a partial_data dict: the keys it has, and the values of the list keys
PartialData(keys, s1, s2, r) ==
    [keys |-> keys, stage1 |-> s1, stage2 |-> s2, rounds |-> r]
EmptyData == PartialData({}, <<>>, <<>>, <<>>)
ErrorData == PartialData({"error"}, <<>>, <<>>, <<>>)
Stage1Data(s1) == PartialData({"stage1"}, s1, <<>>, <<>>)
Stage2Data(s1, s2) ==
    PartialData({"stage1", "stage2", "metadata"}, s1, s2, <<>>)
RoundsData(r) == PartialData({"rounds"}, <<>>, <<>>, r)

mark_response_pending(m, user_content) ==
    [present |-> TRUE, mode |-> m, user_content |-> user_content,
     partial_data |-> EmptyData]

update_pending_progress(pend, partial_data) ==
    IF pend.present THEN [pend EXCEPT !.partial_data = partial_data]
    ELSE pend

clear_pending(pend) == [present |-> FALSE, mode |-> "none", user_content |-> 0,
                        partial_data |-> EmptyData]

\* variant: the stage1 key is looked up but an empty list is not told apart
HasStage1_KeyOnly(pend) ==
    /\ pend.present
    /\ "stage1" \in pend.partial_data.keys

\* pending_data.get("partial_data", {}).get("stage1") is truthy
HasStage1(pend) ==
    /\ pend.present
    /\ "stage1" \in pend.partial_data.keys
    /\ pend.partial_data.stage1 # <<>>

\* ------------------------------------------------------ council (council.py)
\* the result dict Stage 1 builds for a model that answered
Stage1Result(m) == [model |-> m, response |-> Answer(m)]

\* the result dict Stage 2 builds for an evaluator that answered
Stage2Result(m) ==
    [model |-> m, ranking |-> IF m = "m1" THEN "critique1" ELSE "critique2"]

RECURSIVE Stage1Text(_)
\* stage1_text of stage3_synthesize_final, as the tokens it is made of
Stage1Text(s1) ==
    IF s1 = <<>> THEN <<>>
    ELSE <<"Model:", s1[1].model, "Response:", s1[1].response>>
         \o Stage1Text(Tail(s1))

RECURSIVE Stage2Text(_)
\* stage2_text of stage3_synthesize_final, as the tokens it is made of
Stage2Text(s2) ==
    IF s2 = <<>> THEN <<>>
    ELSE <<"Model:", s2[1].model, "Ranking:", s2[1].ranking>>
         \o Stage2Text(Tail(s2))

\* chairman_prompt of stage3_synthesize_final
ChairmanPrompt(user_query, s1, s2) ==
    <<"Original Question:", ToString(user_query)>>
    \o <<"STAGE 1 - Individual Responses:">> \o Stage1Text(s1)
    \o <<"STAGE 2 - Peer Rankings:">> \o Stage2Text(s2)

ErrorResponse == "Error: Unable to generate final synthesis."
StartsWithError(response) == response = ErrorResponse

\* the stage results of a run in which every model answered
FullStage1 == [i \in DOMAIN Council |-> Stage1Result(Council[i])]
FullStage2 == [i \in DOMAIN Council |-> Stage2Result(Council[i])]

\* stage3_synthesize_final, given what query_model returns to the chairman
\* calls it makes ("None" for a failed call): the calls made and the result
stage3_synthesize_final(replies) ==
    IF replies[1] = "None"
    THEN [calls |-> 1,
          result |-> [model |-> ChairmanModel, response |-> ErrorResponse,
                      metrics |-> "empty"]]
    ELSE [calls |-> 1,
          result |-> [model |-> ChairmanModel, response |-> replies[1],
                      metrics |-> "usage"]]

\* aggregate_metrics: the totals over the stage-1 and stage-2 results (one
\* unit per result) and the metrics of the synthesis
aggregate_metrics(s1, s2, s3) ==
    [calls |-> Len(s1) + Len(s2), stage3 |-> s3.metrics]

\* convert_to_unified_result: rounds[0] = responses, rounds[1] = rankings
convert_to_unified_result(s1, s2, s3) ==
    UnifiedMessage("council", <<s1, s2>>, s3, aggregate_metrics(s1, s2, s3))

\* ------------------------------------------------ gateway (openrouter.py)
RETRYABLE_STATUS_CODES == {"408", "429", "502", "503"}
MAX_RETRIES == 3
RETRY_BASE_DELAY == 1

\* how one upstream attempt can end: an HTTP status, a client-side timeout,
\* any other exception, or (streaming) an exception of the token callback
UpstreamStatuses ==
    {"200", "400", "401", "402", "404", "408", "429", "500", "502", "503"}

\* the model lists a fan-out is called with
ModelLists == {<<>>, <<"m1">>, <<"m2">>, <<"m1", "m2">>, <<"m2", "m1">>}

\* does the call of model m stream its tokens
Streaming(c) ==
    \/ c.entry = "query_model_streaming"
    \/ c.entry = "query_models_progressive" /\ c.stream_tokens

Outcomes(c) ==
    (IF c.entry \in {"query_model", "query_model_streaming"}
     THEN UpstreamStatuses \cup {"timeout", "exception"}
     ELSE {"200", "429", "500", "timeout", "exception"})
    \cup (IF Streaming(c) THEN {"on_token_raises"} ELSE {})

\* Python values: None, and the result dict of a successful call
NoneValue == [tag |-> "None", content |-> "none"]
ResultDict(m) == [tag |-> "dict", content |-> Answer(m)]
Unset == [tag |-> "unset", content |-> "none"]

NewTask ==
    [state |-> "running", attempt |-> 0, upstream |-> <<>>, sleeps |-> <<>>,
     result |-> Unset]

\* variant: a client-side timeout is retried by the non-streaming call too
QueryAttempt_RetryTimeout(t, m, streaming, o) ==
    IF o = "200"
    THEN [t EXCEPT !.upstream = Append(@, o), !.state = "done",
                   !.result = ResultDict(m)]
    ELSE IF /\ t.attempt < MAX_RETRIES - 1
            /\ o \in RETRYABLE_STATUS_CODES \cup {"timeout"}
         THEN [t EXCEPT !.upstream = Append(@, o),
                        !.sleeps = Append(@, RETRY_BASE_DELAY * 2 ^ t.attempt),
                        !.attempt = @ + 1]
         ELSE [t EXCEPT !.upstream = Append(@, o), !.state = "done",
                        !.result = NoneValue]

\* variant: the delay is not doubled
QueryAttempt_FlatDelay(t, m, streaming, o) ==
    IF o = "200"
    THEN [t EXCEPT !.upstream = Append(@, o), !.state = "done",
                   !.result = ResultDict(m)]
    ELSE IF /\ t.attempt < MAX_RETRIES - 1
            /\ \/ o \in RETRYABLE_STATUS_CODES
               \/ streaming /\ o = "timeout"
         THEN [t EXCEPT !.upstream = Append(@, o),
                        !.sleeps = Append(@, RETRY_BASE_DELAY),
                        !.attempt = @ + 1]
         ELSE [t EXCEPT !.upstream = Append(@, o), !.state = "done",
                        !.result = NoneValue]

\* one pass of the retry loop of query_model / query_model_streaming for
\* model m: the attempt ends with outcome o; the call returns its result,
\* or sleeps RETRY_BASE_DELAY * 2 ** attempt and goes round again, or
\* returns None
QueryAttempt(t, m, streaming, o) ==
    IF o = "200"
    THEN [t EXCEPT !.upstream = Append(@, o), !.state = "done",
                   !.result = ResultDict(m)]
    ELSE IF /\ t.attempt < MAX_RETRIES - 1
            /\ \/ o \in RETRYABLE_STATUS_CODES
               \/ streaming /\ o = "timeout"
         THEN [t EXCEPT !.upstream = Append(@, o),
                        !.sleeps = Append(@, RETRY_BASE_DELAY * 2 ^ t.attempt),
                        !.attempt = @ + 1]
         ELSE [t EXCEPT !.upstream = Append(@, o), !.state = "done",
                        !.result = NoneValue]

NoRetry ==
    [conversation_id |-> "none", last_council_msg |-> 0, user_query |-> 0,
     stage1_results |-> <<>>, stage2_results |-> <<>>,
     stage3_result |-> NoSynthesis]

NoExtend ==
    [status |-> "none", message_count |-> 0, last_arena_msg |-> 0,
     existing_rounds |-> <<>>, original_query |-> 0, arena_rounds |-> <<>>,
     new_round_number |-> 0, new_total_rounds |-> 0, queried |-> <<>>,
     synthesis |-> NoSynthesis]

\* --------------------------------------- pending tracker, with its times
PENDING_STALE_TIMEOUT_SECONDS == 600

Time(t) == [kind |-> "time", at |-> t]

NoTimedMarker ==
    [present |-> FALSE, started_at |-> [kind |-> "absent", at |-> 0],
     mode |-> "none", user_content |-> 0, partial_data |-> EmptyData,
     last_update |-> [kind |-> "absent", at |-> 0]]

NoTrackerCall ==
    [op |-> "none", at |-> 0, before |-> NoTimedMarker,
     partial_data |-> EmptyData,
     timeout_seconds |-> PENDING_STALE_TIMEOUT_SECONDS, result |-> FALSE]

\* mark_response_pending at instant t
timed_mark_response_pending(m, user_content, t) ==
    [present |-> TRUE, started_at |-> Time(t), mode |-> m,
     user_content |-> user_content, partial_data |-> EmptyData,
     last_update |-> Time(t)]

\* update_pending_progress at instant t
timed_update_pending_progress(mk, d, t) ==
    IF mk.present
    THEN [mk EXCEPT !.partial_data = d, !.last_update = Time(t)]
    ELSE mk

\* is_pending_stale called at instant t
is_pending_stale(pending_info, timeout_seconds, t) ==
    LET last_update_str ==
            IF pending_info.last_update.kind # "absent"
            THEN pending_info.last_update
            ELSE pending_info.started_at
    IN  IF last_update_str.kind = "absent" THEN TRUE
        ELSE IF last_update_str.kind = "unparseable" THEN TRUE
        ELSE t - last_update_str.at > timeout_seconds

\* ------------------------------------------------- authentication (auth.py)
\* an IPv4 address is the sequence of its four numbers; <<>> is a string
\* ip_address() rejects (the empty string included)
Loopback == <<127, 0, 0, 1>>

\* a header the request does not carry
NoHeader == "<none>"

\* _is_trusted_ip with the default LLMCOUNCIL_TRUSTED_PROXY_IPS:
\* 127.0.0.1, 10.0.0.0/8, 172.16.0.0/12, 192.168.0.0/16 (::1 is IPv6)
is_trusted_ip(client_ip) ==
    IF Len(client_ip) # 4 THEN FALSE
    ELSE \/ client_ip = Loopback
         \/ client_ip[1] = 10
         \/ client_ip[1] = 172 /\ client_ip[2] \in 16..31
         \/ client_ip[1] = 192 /\ client_ip[2] = 168

\* _get_client_ip: the leftmost entry of X-Forwarded-For when the header is
\* there, else request.client.host
get_client_ip(request) ==
    IF request.forwarded # <<>> THEN request.forwarded[1]
    ELSE request.client

NoUser == [username |-> NoHeader, email |-> NoHeader, groups |-> NoHeader,
           display_name |-> NoHeader]

\* get_current_user
get_current_user(auth_enabled, request) ==
    IF ~auth_enabled THEN NoUser
    ELSE IF ~is_trusted_ip(get_client_ip(request)) THEN NoUser
    ELSE IF request.remote_user = NoHeader THEN NoUser
    ELSE [username |-> request.remote_user, email |-> request.remote_email,
          groups |-> request.remote_groups,
          display_name |-> request.remote_name]

\* labels = [chr(65 + i) for i in range(len(stage1_results))]: the label of
\* the response at index i (from 0) is chr(65 + i); a string is the sequence
\* of its code points
response_labels(count) == [n \in 1..count |-> <<65 + (n - 1)>>]

\* -------------------------------------- aggregate rankings (council.py)
\* The text after FINAL RANKING: is the sequence of its mentions of a
\* response: each is "Response X" for a letter X, written as an item of a
\* numbered list ("1. Response X") or not.
\* parse_ranking_from_text: the labels of the numbered items when there are
\* any, else of all mentions, in the order of the text
parse_ranking_from_text(ranking_section) ==
    LET is_numbered(m) == m.numbered
        numbered_matches == SelectSeq(ranking_section, is_numbered)
        matches == IF numbered_matches # <<>> THEN numbered_matches
                   ELSE ranking_section
    IN  [i \in DOMAIN matches |-> matches[i].label]

RECURSIVE ModelPositions(_, _)
\* model_positions: the pairs (model, position) appended over all of
\* stage2_results, in order. `for position, label in
\* enumerate(parsed_ranking, start=1)` numbers every label, and the labels
\* that are not in label_to_model are skipped afterwards.
ModelPositions(rankings, label_to_model) ==
    IF rankings = <<>> THEN <<>>
    ELSE LET parsed_ranking == parse_ranking_from_text(rankings[1])
             all == [i \in DOMAIN parsed_ranking |->
                        [label |-> parsed_ranking[i], position |-> i]]
             known(e) == e.label \in DOMAIN label_to_model
             kept == SelectSeq(all, known)
         IN  [i \in DOMAIN kept |->
                 [model |-> label_to_model[kept[i].label],
                  position |-> kept[i].position]]
             \o ModelPositions(Tail(rankings), label_to_model)

\* calculate_aggregate_rankings, given the pairs appended to model_positions
calculate_aggregate_rankings(model_positions) ==
    LET \* the keys of model_positions, in insertion order
        seen == [i \in DOMAIN model_positions |->
                    [model |-> model_positions[i].model,
                     first |-> \A j \in 1..(i - 1) :
                         model_positions[j].model # model_positions[i].model]]
        is_first(e) == e.first
        models == SelectSeq(seen, is_first)
        positions(m) ==
            LET of_m(e) == e.model = m
                mine == SelectSeq(model_positions, of_m)
            IN  [i \in DOMAIN mine |-> mine[i].position]
        \* round(sum(positions) / len(positions), 2), in hundredths
        average_rank(ps) ==
            LET sum[k \in 0..Len(ps)] ==
                    IF k = 0 THEN 0 ELSE sum[k - 1] + ps[k]
            IN  (200 * sum[Len(ps)] + Len(ps)) \div (2 * Len(ps))
        aggregate ==
            [i \in DOMAIN models |->
                [model |-> models[i].model,
                 average_rank |-> average_rank(positions(models[i].model)),
                 rankings_count |-> Len(positions(models[i].model))]]
        \* aggregate.sort(key=lambda x: x['average_rank']): ascending, and
        \* stable for equal keys
        place(i) ==
            1 + Cardinality({j \in DOMAIN aggregate :
                    \/ aggregate[j].average_rank < aggregate[i].average_rank
                    \/ /\ aggregate[j].average_rank = aggregate[i].average_rank
                       /\ j < i})
    IN  [k \in DOMAIN aggregate |->
            aggregate[CHOOSE i \in DOMAIN aggregate : place(i) = k]]

\* ------------------------ unified data model (deliberation/deliberation.py)
\* An optional attribute is None or holds a value; a key of a dict is
\* missing or holds a value. Both are written as a sequence of at most one
\* element.
None == <<>>
Some(v) == <<v>>
Missing == <<>>
Present(v) == <<v>>

\* data.get(key): None when the key is missing
DictGet(entry) == IF entry = Missing THEN None ELSE Some(entry[1])

\* `if self.metrics: result["metrics"] = self.metrics.to_dict()`. A Metrics
\* object is truthy whatever its fields hold; Metrics.to_dict writes
\* provider only when it is truthy.
Metrics_to_dict(metrics) ==
    IF metrics = None THEN Missing
    ELSE LET self == metrics[1]
         IN  Present(
                 [cost |-> self.cost,
                  total_tokens |-> self.total_tokens,
                  latency_ms |-> self.latency_ms,
                  provider |-> IF self.provider # None /\ self.provider[1] # ""
                               THEN Present(self.provider[1]) ELSE Missing])

\* `if data.get("metrics"): metrics = Metrics.from_dict(data["metrics"])`.
\* The dict of a Metrics object is never empty; Metrics.from_dict reads the
\* numbers with `x or 0` and provider with data.get("provider").
Metrics_from_dict(entry) ==
    IF entry = Missing THEN None
    ELSE LET data == entry[1]
         IN  Some(
                 [cost |-> IF data.cost # 0 THEN data.cost ELSE 0,
                  total_tokens |-> IF data.total_tokens # 0
                                   THEN data.total_tokens ELSE 0,
                  latency_ms |-> IF data.latency_ms # 0
                                 THEN data.latency_ms ELSE 0,
                  provider |-> DictGet(data.provider)])

\* ParticipantResponse.to_dict: metrics, reasoning_details and
\* parsed_ranking are written only when they are truthy
ParticipantResponse_to_dict(self) ==
    [participant |-> self.participant,
     model |-> self.model,
     content |-> self.content,
     metrics |-> Metrics_to_dict(self.metrics),
     reasoning_details |->
         IF self.reasoning_details # None /\ self.reasoning_details[1] # ""
         THEN Present(self.reasoning_details[1]) ELSE Missing,
     parsed_ranking |->
         IF self.parsed_ranking # None /\ self.parsed_ranking[1] # <<>>
         THEN Present(self.parsed_ranking[1]) ELSE Missing]

ParticipantResponse_from_dict(data) ==
    [participant |-> data.participant,
     model |-> data.model,
     content |-> data.content,
     metrics |-> Metrics_from_dict(data.metrics),
     reasoning_details |-> DictGet(data.reasoning_details),
     parsed_ranking |-> DictGet(data.parsed_ranking)]

\* Round.to_dict: round_type is written as its string, metadata and metrics
\* only when they are truthy
Round_to_dict(self) ==
    [round_number |-> self.round_number,
     round_type |-> self.round_type.value,
     responses |-> [i \in DOMAIN self.responses |->
                       ParticipantResponse_to_dict(self.responses[i])],
     metadata |-> IF self.metadata # {} THEN Present(self.metadata)
                  ELSE Missing,
     metrics |-> Metrics_to_dict(self.metrics)]

\* Round.from_dict: RoundType(round_type), the string itself on ValueError.
\* A round_type is a member of RoundType (enum) or a plain string.
Round_from_dict(data) ==
    [round_number |-> data.round_number,
     round_type |->
         [enum |-> data.round_type \in {"responses", "rankings", "opening",
                                        "rebuttal", "closing"},
          value |-> data.round_type],
     responses |-> [i \in DOMAIN data.responses |->
                       ParticipantResponse_from_dict(data.responses[i])],
     metadata |-> IF data.metadata = Missing THEN {}
                  ELSE data.metadata[1],
     metrics |-> Metrics_from_dict(data.metrics)]

Synthesis_to_dict(self) ==
    [model |-> self.model,
     content |-> self.content,
     metrics |-> Metrics_to_dict(self.metrics),
     reasoning_details |->
         IF self.reasoning_details # None /\ self.reasoning_details[1] # ""
         THEN Present(self.reasoning_details[1]) ELSE Missing]

Synthesis_from_dict(data) ==
    [model |-> data.model,
     content |-> data.content,
     metrics |-> Metrics_from_dict(data.metrics),
     reasoning_details |-> DictGet(data.reasoning_details)]

\* DeliberationResult.to_dict: synthesis, participant_mapping and metrics
\* are written only when they are truthy
DeliberationResult_to_dict(self) ==
    [mode |-> self.mode,
     rounds |-> [i \in DOMAIN self.rounds |-> Round_to_dict(self.rounds[i])],
     synthesis |-> IF self.synthesis # None
                   THEN Present(Synthesis_to_dict(self.synthesis[1]))
                   ELSE Missing,
     participant_mapping |->
         IF self.participant_mapping # {}
         THEN Present(self.participant_mapping) ELSE Missing,
     metrics |-> IF self.metrics # {} THEN Present(self.metrics)
                 ELSE Missing]

DeliberationResult_from_dict(data) ==
    [mode |-> data.mode,
     rounds |-> [i \in DOMAIN data.rounds |-> Round_from_dict(data.rounds[i])],
     synthesis |-> IF data.synthesis # Missing
                   THEN Some(Synthesis_from_dict(data.synthesis[1]))
                   ELSE None,
     participant_mapping |->
         IF data.participant_mapping = Missing THEN {}
         ELSE data.participant_mapping[1],
     metrics |-> IF data.metrics = Missing THEN {} ELSE data.metrics[1]]

\* RoundType is a str subclass: a member equals the plain string of its
\* value, so two rounds are equal when they agree up to that
RoundEq(a, b) ==
    [a EXCEPT !.round_type = @.value] = [b EXCEPT !.round_type = @.value]

\* the == of two DeliberationResult objects
ResultEq(a, b) ==
    /\ DOMAIN a.rounds = DOMAIN b.rounds
    /\ \A i \in DOMAIN a.rounds : RoundEq(a.rounds[i], b.rounds[i])
    /\ [a EXCEPT !.rounds = <<>>] = [b EXCEPT !.rounds = <<>>]

EmptyResult ==
    [mode |-> "council", rounds |-> <<>>, synthesis |-> None,
     participant_mapping |-> {}, metrics |-> {}]

\* ------------------------------------------------------------------- init

Init ==
    /\ messages = <<>>
    /\ title = "New Conversation"
    /\ pending = [present |-> FALSE, mode |-> "none", user_content |-> 0,
                  partial_data |-> EmptyData]
    /\ pc = "idle"
    /\ req = [mode |-> "none", content |-> 0, resume |-> FALSE,
              is_first_message |-> FALSE, use_web_search |-> FALSE,
              round_count |-> 0]
    /\ can_resume = FALSE
    /\ stage1_results = <<>>
    /\ s1todo = {}
    /\ stage2_results = <<>>
    /\ stage3_result = NoSynthesis
    /\ title_task = FALSE
    /\ rounds = <<>>
    /\ round_events = <<>>
    /\ trace = <<>>
    /\ chairman = [prompt |-> <<>>, replies |-> <<>>]
    /\ outcome = "none"
    /\ nreq = 0
    /\ call = [entry |-> "none", models |-> <<>>, stream_tokens |-> FALSE]
    /\ gpc = "idle"
    /\ task = [m \in {} |-> NewTask]
    /\ done = {}
    /\ pending_tasks = {}
    /\ completed_models = <<>>
    /\ completion = <<>>
    /\ results = [m \in {} |-> Unset]
    /\ returned = Unset
    /\ rpc = "idle"
    /\ open_runs = 0
    /\ retry_trace = <<>>
    /\ retry_local = NoRetry
    /\ epc = "idle"
    /\ extend_trace = <<>>
    /\ extend_local = NoExtend
    /\ streams = [r \in 1..MaxStreams |->
                     [status |-> "none", mode |-> "none", spc |-> "none",
                      frames |-> <<>>, late |-> <<>>]]
    /\ shutting_down = FALSE
    /\ now = 0
    /\ marker = NoTimedMarker
    /\ tracker_call = NoTrackerCall
    /\ auth_call =
           [auth_enabled |-> FALSE,
            request |-> [client |-> <<>>, forwarded |-> <<>>,
                         remote_user |-> NoHeader, remote_email |-> NoHeader,
                         remote_groups |-> NoHeader, remote_name |-> NoHeader],
            user |-> NoUser,
            called |-> FALSE]
    /\ labels_call = [site |-> "none", count |-> 0, labels |-> <<>>]
    /\ rankings_call =
           [called |-> FALSE, labels |-> 0, stage2_results |-> <<>>,
            model_positions |-> <<>>, aggregate |-> <<>>]
    /\ roundtrip_call =
           [called |-> FALSE, x |-> EmptyResult,
            data |-> DeliberationResult_to_dict(EmptyResult),
            y |-> EmptyResult]
    /\ file =
           [title |-> "New Conversation",
            messages |->
                <<[role |-> "user", content |-> 1, legacy |-> None,
                   unified |-> None],
                  [role |-> "assistant", content |-> 0,
                   legacy |-> Some([stage1 |-> FullStage1,
                                    stage2 |-> FullStage2,
                                    stage3 |-> "Synthesis result"]),
                   unified |-> None]>>]
    /\ shared_client = None
    /\ calls = <<>>
    /\ streaming_call =
          [task |-> NewTask, content_chunks |-> <<>>, usage |-> None,
           lines |-> 0, received |-> <<[deltas |-> <<>>, usage |-> None]>>,
           result |-> None]
    /\ fanout =
          [pc |-> "idle", entry |-> "none", models |-> <<>>, tasks |-> <<>>,
           pending |-> {}, done |-> {}, pending_models |-> <<>>,
           completed_models |-> <<>>, callbacks |-> <<>>]
    /\ bridge =
          [collection |-> "running", event_queue |-> <<>>, put |-> <<>>,
           consumed |-> <<>>, yielded |-> <<>>, consumer |-> "get"]
    /\ pending_file = [c \in {"conv", "other"} |-> clear_pending(EmptyData)]
    /\ tracker_op =
          [running |-> "none",
           calls |-> [c \in {"conv", "other"} |-> None],
           conversation |-> "none",
           before |-> [c \in {"conv", "other"} |-> clear_pending(EmptyData)]]

\* ------------------------------------------------- requests (main.py)

\* send_message_stream: a stream request is accepted and its generator made
SendMessageStream ==
    /\ UNCHANGED <<gateway, retry, aux>>
    /\ pc = "idle"
    /\ nreq < MaxRequests
    /\ \E m \in {"council", "arena"}, resume \in BOOLEAN, ws \in BOOLEAN,
          n \in 2..MaxRounds :
          req' = [mode |-> m, content |-> nreq + 1, resume |-> resume,
                  is_first_message |-> (Len(messages) = 0),
                  use_web_search |-> ws,
                  round_count |-> IF m = "arena" THEN n ELSE 0]
    /\ nreq' = nreq + 1
    /\ pc' = "start"
    /\ outcome' = "running"
    /\ trace' = <<>>
    /\ can_resume' = FALSE
    /\ stage1_results' = <<>>
    /\ s1todo' = {}
    /\ stage2_results' = <<>>
    /\ stage3_result' = NoSynthesis
    /\ title_task' = FALSE
    /\ rounds' = <<>>
    /\ round_events' = <<>>
    /\ chairman' = [prompt |-> <<>>, replies |-> <<>>]
    /\ UNCHANGED store

\* clear_pending_status: DELETE /api/conversations/{id}/pending
ClearPendingStatus ==
    /\ UNCHANGED <<gateway, retry, aux>>
    /\ pc = "idle"
    /\ pending' = clear_pending(pending)
    /\ messages' = remove_last_user_message(messages)
    /\ UNCHANGED <<title, pc, local, trace, outcome, nreq>>

\* ------------------------------------- the exception handler of a pipeline
\* except Exception: update_pending_progress({"error": ...}); yield error.
\* msgs, ttl, pend: the store when the exception is raised; tr: the trace up
\* to it.  The handler's own write can fail, and then the exception leaves
\* the generator.
Raise(msgs, ttl, pend, tr) ==
    \E handled \in {TRUE} \cup (IF pend.present THEN {FALSE} ELSE {}) :
        /\ messages' = msgs
        /\ title' = ttl
        /\ pending' = IF handled THEN update_pending_progress(pend, ErrorData)
                      ELSE pend
        /\ trace' = tr \o <<"raise", "update_pending_progress">>
                       \o (IF handled THEN <<"error">> ELSE <<"raise">>)
        /\ pc' = IF handled THEN "error" ELSE "idle"
        /\ outcome' = IF handled THEN "running" ELSE "escaped"

\* the yield that follows the storage calls of a fresh run
AfterMark ==
    IF req.use_web_search THEN "web_search_start"
    ELSE IF req.mode = "council" THEN "stage1_start" ELSE "arena_start"

\* --------------------------------- run_council_pipeline (council_stream.py)
\* entry: the resume check, then resume_start or the fresh run's storage calls
CouncilBegin ==
    /\ UNCHANGED <<gateway, retry, aux>>
    /\ pc = "start"
    /\ req.mode = "council"
    /\ can_resume' = (req.resume /\ HasStage1(pending))
    /\ UNCHANGED <<req, s1todo, stage2_results, stage3_result, title_task,
                   rounds, round_events, chairman, nreq>>
    /\ IF can_resume'
       THEN /\ trace' = <<"resume_start">>
            /\ pc' = "resume_start"
            /\ UNCHANGED <<store, stage1_results, outcome>>
       ELSE /\ UNCHANGED stage1_results
            /\ \/ Raise(messages, title, pending, <<"add_user_message">>)
               \/ Raise(add_user_message(messages, req.content), title,
                        pending,
                        <<"add_user_message", "mark_response_pending">>)
               \/ /\ messages' = add_user_message(messages, req.content)
                  /\ pending' = mark_response_pending("council", req.content)
                  /\ trace' = <<"add_user_message", "mark_response_pending",
                                AfterMark>>
                  /\ pc' = AfterMark
                  /\ UNCHANGED <<title, outcome>>

\* resumed run: stage1_results from the marker, stage1_complete re-emitted
ResumeStage1Complete ==
    /\ UNCHANGED <<gateway, retry, aux>>
    /\ pc = "resume_start"
    /\ stage1_results' = pending.partial_data.stage1
    /\ trace' = Append(trace, "stage1_complete")
    /\ pc' = "stage1_complete"
    /\ UNCHANGED <<store, req, can_resume, s1todo, stage2_results,
                   stage3_result, title_task, rounds, round_events, chairman, outcome, nreq>>

\* await perform_web_search, then yield web_search_complete
WebSearch ==
    /\ UNCHANGED <<gateway, retry, aux>>
    /\ pc = "web_search_start"
    /\ trace' = Append(trace, "web_search_complete")
    /\ pc' = "web_search_complete"
    /\ UNCHANGED <<store, local, outcome, nreq>>

\* yield stage1_start
Stage1Start ==
    /\ UNCHANGED <<gateway, retry, aux>>
    /\ pc = "web_search_complete"
    /\ req.mode = "council"
    /\ trace' = Append(trace, "stage1_start")
    /\ pc' = "stage1_start"
    /\ UNCHANGED <<store, local, outcome, nreq>>

\* _stream_stage1: the task running stage1_collect_responses is created
Stage1Launch ==
    /\ UNCHANGED <<gateway, retry, aux>>
    /\ pc = "stage1_start"
    /\ s1todo' = ModelIds
    /\ trace' = Append(trace, "stage1")
    /\ pc' = "stage1_running"
    /\ UNCHANGED <<store, req, can_resume, stage1_results, stage2_results,
                   stage3_result, title_task, rounds, round_events, chairman, outcome, nreq>>

\* one model's call completes: on_model_response (when it has a result),
\* then on_progress; the queued events are yielded
Stage1ModelComplete ==
    /\ UNCHANGED <<gateway, retry, aux>>
    /\ pc = "stage1_running"
    /\ \E m \in s1todo, ok \in BOOLEAN :
          /\ s1todo' = s1todo \ {m}
          /\ stage1_results' = IF ok THEN Append(stage1_results, Stage1Result(m))
                               ELSE stage1_results
          /\ trace' = trace
                      \o (IF ok THEN <<"stage1_model_response">> ELSE <<>>)
                      \o <<"stage1_progress">>
    /\ UNCHANGED <<store, pc, req, can_resume, stage2_results, stage3_result,
                   title_task, rounds, round_events, chairman, outcome, nreq>>

\* stage1_collect_responses raises: the sentinel ends the loop and
\* `await task` re-raises into the pipeline
Stage1Raise ==
    /\ UNCHANGED <<gateway, retry, aux>>
    /\ pc = "stage1_running"
    /\ Raise(messages, title, pending, trace)
    /\ UNCHANGED <<local, nreq>>

\* variant: the loop ends on the sentinel without yielding stage1_complete
Stage1Complete_NoYield ==
    /\ UNCHANGED <<gateway, retry, aux>>
    /\ pc = "stage1_running"
    /\ s1todo = {}
    /\ pc' = "stage1_complete"
    /\ UNCHANGED <<store, local, trace, outcome, nreq>>

\* the sentinel arrives after the last model: yield stage1_complete
Stage1Complete ==
    /\ UNCHANGED <<gateway, retry, aux>>
    /\ pc = "stage1_running"
    /\ s1todo = {}
    /\ trace' = Append(trace, "stage1_complete")
    /\ pc' = "stage1_complete"
    /\ UNCHANGED <<store, local, outcome, nreq>>

\* after stage1_complete: the fresh run writes {stage1}; the title task is
\* started; yield stage2_start
Stage2Start ==
    /\ UNCHANGED <<gateway, retry, aux>>
    /\ pc = "stage1_complete"
    /\ UNCHANGED <<req, can_resume, stage1_results, s1todo, stage2_results,
                   stage3_result, rounds, round_events, chairman, nreq>>
    /\ IF can_resume
       THEN /\ title_task' = FALSE
            /\ trace' = Append(trace, "stage2_start")
            /\ pc' = "stage2_start"
            /\ UNCHANGED <<store, outcome>>
       ELSE \/ /\ pending.present
               /\ Raise(messages, title, pending,
                        Append(trace, "update_pending_progress"))
               /\ UNCHANGED title_task
            \/ /\ pending' = update_pending_progress(
                                 pending, Stage1Data(stage1_results))
               /\ title_task' = req.is_first_message
               /\ trace' = trace \o <<"update_pending_progress">>
                           \o (IF req.is_first_message
                               THEN <<"generate_conversation_title">>
                               ELSE <<>>)
                           \o <<"stage2_start">>
               /\ pc' = "stage2_start"
               /\ UNCHANGED <<messages, title, outcome>>

\* await stage2_collect_rankings (which may raise), aggregate, yield
\* stage2_complete
Stage2 ==
    /\ UNCHANGED <<gateway, retry, aux>>
    /\ pc = "stage2_start"
    /\ UNCHANGED <<req, can_resume, stage1_results, s1todo, stage3_result,
                   title_task, rounds, round_events, chairman, nreq>>
    /\ \/ /\ Raise(messages, title, pending, Append(trace, "stage2"))
          /\ UNCHANGED stage2_results
       \/ \E answered \in {ModelIds, {}} :
             /\ stage2_results' =
                    [i \in 1..Len(Restrict(Council, answered)) |->
                        Stage2Result(Restrict(Council, answered)[i])]
             /\ trace' = trace \o <<"stage2", "stage2_complete">>
             /\ pc' = "stage2_complete"
             /\ UNCHANGED <<store, outcome>>

\* after stage2_complete: write {stage1, stage2, metadata}, yield stage3_start
Stage3Start ==
    /\ UNCHANGED <<gateway, retry, aux>>
    /\ pc = "stage2_complete"
    /\ UNCHANGED <<local, nreq>>
    /\ \/ /\ pending.present
          /\ Raise(messages, title, pending,
                   Append(trace, "update_pending_progress"))
       \/ /\ pending' = update_pending_progress(
                            pending, Stage2Data(stage1_results, stage2_results))
          /\ trace' = trace \o <<"update_pending_progress", "stage3_start">>
          /\ pc' = "stage3_start"
          /\ UNCHANGED <<messages, title, outcome>>

ChairmanReplies == {"None", "Synthesis result"}
RECURSIVE ChairmanCalls(_)
ChairmanCalls(n) == IF n = 0 THEN <<>> ELSE <<"chairman">> \o ChairmanCalls(n - 1)

\* await stage3_synthesize_final, yield stage3_complete
Stage3 ==
    /\ UNCHANGED <<gateway, retry, aux>>
    /\ pc = "stage3_start"
    /\ \E r1 \in ChairmanReplies, r2 \in ChairmanReplies :
          LET s3 == stage3_synthesize_final(<<r1, r2>>) IN
          /\ stage3_result' = s3.result
          /\ chairman' = [prompt |-> ChairmanPrompt(req.content, stage1_results,
                                                    stage2_results),
                          replies |-> SubSeq(<<r1, r2>>, 1, s3.calls)]
          /\ trace' = trace \o ChairmanCalls(s3.calls) \o <<"stage3_complete">>
    /\ pc' = "stage3_complete"
    /\ UNCHANGED <<store, req, can_resume, stage1_results, s1todo,
                   stage2_results, title_task, rounds, round_events, outcome, nreq>>

\* aggregate_metrics, yield metrics_complete
MetricsComplete ==
    /\ UNCHANGED <<gateway, retry, aux>>
    /\ pc = "stage3_complete"
    /\ trace' = Append(trace, "metrics_complete")
    /\ pc' = "metrics_complete"
    /\ UNCHANGED <<store, local, outcome, nreq>>

\* await title_task, update_conversation_title, yield title_complete
\* variant: title_complete whether or not the title call was started
TitleComplete_Unguarded ==
    /\ UNCHANGED <<gateway, retry, aux>>
    /\ pc = "metrics_complete"
    /\ UNCHANGED <<local, nreq>>
    /\ \/ Raise(messages, title, pending,
                Append(trace, "update_conversation_title"))
       \/ /\ title' = "generated"
          /\ trace' = trace \o <<"update_conversation_title", "title_complete">>
          /\ pc' = "title_complete"
          /\ UNCHANGED <<messages, pending, outcome>>

TitleComplete ==
    /\ UNCHANGED <<gateway, retry, aux>>
    /\ pc = "metrics_complete"
    /\ title_task
    /\ UNCHANGED <<local, nreq>>
    /\ \/ Raise(messages, title, pending,
                Append(trace, "update_conversation_title"))
       \/ /\ title' = "generated"
          /\ trace' = trace \o <<"update_conversation_title", "title_complete">>
          /\ pc' = "title_complete"
          /\ UNCHANGED <<messages, pending, outcome>>

\* ------------------------------------------------- arena data (arena.py)
\* a key a dict does not have
Absent == "<absent>"

\* dict.get(key, default)
Get(value, default) == IF value = Absent THEN default ELSE value

\* create_participant_mapping(council): label -> model, in the order of the
\* models
participant_mapping ==
    [i \in DOMAIN Council |->
        [label |-> IF i = 1 THEN "Participant A" ELSE "Participant B",
         model |-> Council[i]]]

\* round_responses of a round in which the models in `answered` returned a
\* response: the arena response dicts, in the order of the mapping
RoundResponses(answered) ==
    LET all == [i \in DOMAIN participant_mapping |->
                   [participant |-> participant_mapping[i].label,
                    model |-> participant_mapping[i].model,
                    response |-> Answer(participant_mapping[i].model),
                    content |-> Absent]]
        keep(r) == r.model \in answered
    IN  SelectSeq(all, keep)

\* round1_initial_positions: ArenaRound(1, "initial", round_responses)
round1_initial_positions(answered) ==
    [round_number |-> 1, round_type |-> "initial",
     responses |-> RoundResponses(answered)]

\* round_n_deliberation: ArenaRound(round_number, "deliberation", ...)
round_n_deliberation(round_number, answered) ==
    [round_number |-> round_number, round_type |-> "deliberation",
     responses |-> RoundResponses(answered)]

\* the round the k-th fan-out of a debate returns when every participant
\* answers
ArenaRound(k) ==
    IF k = 1 THEN round1_initial_positions(ModelIds)
    ELSE round_n_deliberation(k, ModelIds)

\* Round(round_number, unified_type, responses).to_dict() of an arena round
UnifiedRound(round_dict) ==
    LET \* type_mapping.get(round_type, round_type)
        type_mapping(round_type) ==
            CASE round_type \in {"initial", "opening"} -> "opening"
              [] round_type \in {"deliberation", "rebuttal"} -> "rebuttal"
              [] OTHER -> round_type
        \* ParticipantResponse(participant=resp.get("participant", ""), ...,
        \* content=resp.get("response", "")).to_dict()
        UnifiedResponse(resp) ==
            [participant |-> resp.participant, model |-> resp.model,
             response |-> Absent, content |-> Get(resp.response, "")]
    IN  [round_number |-> round_dict.round_number,
         round_type |-> type_mapping(round_dict.round_type),
         responses |-> [i \in DOMAIN round_dict.responses |->
                           UnifiedResponse(round_dict.responses[i])]]

\* aggregate_arena_metrics
aggregate_arena_metrics(rs, synthesis) ==
    [calls |-> Len(rs), stage3 |-> synthesis.metrics]

\* convert_arena_to_unified_result(...).to_dict() plus role
convert_arena_to_unified_result(rs, synthesis, metrics) ==
    UnifiedMessage("arena", [i \in DOMAIN rs |-> UnifiedRound(rs[i])],
                   synthesis, metrics)

\* the message a finished run stores
FinalMessage ==
    IF req.mode = "council"
    THEN convert_to_unified_result(stage1_results, stage2_results, stage3_result)
    ELSE convert_arena_to_unified_result(
             rounds, stage3_result,
             aggregate_arena_metrics(rounds, stage3_result))

\* variant: the marker is cleared before the message is stored
Persist_ClearFirst ==
    /\ UNCHANGED <<gateway, retry, aux>>
    /\ \/ pc = "metrics_complete" /\ ~title_task
       \/ pc = "title_complete"
    /\ UNCHANGED <<local, nreq>>
    /\ \/ /\ pending.present
          /\ Raise(messages, title, pending, Append(trace, "clear_pending"))
       \/ Raise(messages, title, clear_pending(pending),
                trace \o <<"clear_pending", "add_unified_message">>)
       \/ /\ messages' = add_unified_message(messages, FinalMessage)
          /\ pending' = clear_pending(pending)
          /\ trace' = trace \o <<"clear_pending", "add_unified_message",
                                 "complete">>
          /\ pc' = "complete"
          /\ UNCHANGED <<title, outcome>>

\* variant: a synthesis that starts with "Error:" is reported as a failure
\* and not stored, as retry_stage3_pipeline does
Persist_RejectError ==
    /\ UNCHANGED <<gateway, retry, aux>>
    /\ \/ pc = "metrics_complete" /\ ~title_task
       \/ pc = "title_complete"
    /\ UNCHANGED <<local, nreq>>
    /\ IF StartsWithError(stage3_result.response)
       THEN /\ trace' = Append(trace, "error")
            /\ pc' = "error"
            /\ UNCHANGED <<store, outcome>>
       ELSE \/ Raise(messages, title, pending,
                     Append(trace, "add_unified_message"))
            \/ /\ pending.present
               /\ Raise(add_unified_message(messages, FinalMessage), title,
                        pending,
                        trace \o <<"add_unified_message", "clear_pending">>)
            \/ /\ messages' = add_unified_message(messages, FinalMessage)
               /\ pending' = clear_pending(pending)
               /\ trace' = trace \o <<"add_unified_message", "clear_pending",
                                      "complete">>
               /\ pc' = "complete"
               /\ UNCHANGED <<title, outcome>>

\* save and complete: add_unified_message, clear_pending, yield complete
Persist ==
    /\ UNCHANGED <<gateway, retry, aux>>
    /\ \/ pc = "metrics_complete" /\ ~title_task
       \/ pc = "title_complete"
    /\ UNCHANGED <<local, nreq>>
    /\ \/ Raise(messages, title, pending, Append(trace, "add_unified_message"))
       \/ /\ pending.present
          /\ Raise(add_unified_message(messages, FinalMessage), title, pending,
                   trace \o <<"add_unified_message", "clear_pending">>)
       \/ /\ messages' = add_unified_message(messages, FinalMessage)
          /\ pending' = clear_pending(pending)
          /\ trace' = trace \o <<"add_unified_message", "clear_pending",
                                 "complete">>
          /\ pc' = "complete"
          /\ UNCHANGED <<title, outcome>>

\* the generator is resumed after its terminal event and returns
Finish ==
    /\ UNCHANGED <<gateway, retry, aux>>
    /\ pc \in {"complete", "error"}
    /\ outcome' = pc
    /\ pc' = "idle"
    /\ UNCHANGED <<store, local, trace, nreq>>

\* the client goes away: the generator is closed where it is suspended
Abandon ==
    /\ UNCHANGED <<gateway, retry, aux>>
    /\ pc \notin {"idle", "complete", "error"}
    /\ outcome' = "abandoned"
    /\ pc' = "idle"
    /\ UNCHANGED <<store, local, trace, nreq>>

\* ------------------------------------------ arena_event_generator (main.py)
\* final_synthesis, given what query_model returns to the chairman call
final_synthesis(reply) ==
    IF reply = "None"
    THEN [model |-> ChairmanModel, response |-> "Error: Unable to generate synthesis.",
          metrics |-> "empty"]
    ELSE [model |-> ChairmanModel, response |-> reply, metrics |-> "usage"]

\* entry: add_user_message, mark_response_pending, the title task, first yield
ArenaBegin ==
    /\ UNCHANGED <<gateway, retry, aux>>
    /\ pc = "start"
    /\ req.mode = "arena"
    /\ UNCHANGED <<req, can_resume, stage1_results, s1todo, stage2_results,
                   stage3_result, rounds, round_events, chairman, nreq>>
    /\ \/ /\ Raise(messages, title, pending, <<"add_user_message">>)
          /\ UNCHANGED title_task
       \/ /\ Raise(add_user_message(messages, req.content), title, pending,
                   <<"add_user_message", "mark_response_pending">>)
          /\ UNCHANGED title_task
       \/ /\ messages' = add_user_message(messages, req.content)
          /\ pending' = mark_response_pending("arena", req.content)
          /\ title_task' = req.is_first_message
          /\ trace' = <<"add_user_message", "mark_response_pending">>
                      \o (IF req.is_first_message
                          THEN <<"generate_conversation_title">> ELSE <<>>)
                      \o <<AfterMark>>
          /\ pc' = AfterMark
          /\ UNCHANGED <<title, outcome>>

\* yield arena_start
ArenaStart ==
    /\ UNCHANGED <<gateway, retry, aux>>
    /\ pc = "web_search_complete"
    /\ req.mode = "arena"
    /\ trace' = Append(trace, "arena_start")
    /\ pc' = "arena_start"
    /\ UNCHANGED <<store, local, outcome, nreq>>

\* the data of a round_start event: the round number and the literal type
round_start(round_num) ==
    [type |-> "round_start", round_number |-> round_num,
     round_type |-> IF round_num = 1 THEN "initial" ELSE "deliberation"]

\* the data of a round_complete event: the round's to_dict()
round_complete(arena_round) ==
    [type |-> "round_complete", round_number |-> arena_round.round_number,
     round_type |-> arena_round.round_type]

\* yield round_start for round 1
Round1Start ==
    /\ UNCHANGED <<gateway, retry, aux>>
    /\ pc = "arena_start"
    /\ trace' = Append(trace, "round_start")
    /\ round_events' = Append(round_events, round_start(1))
    /\ pc' = "round_start"
    /\ UNCHANGED <<store, req, can_resume, stage1_results, s1todo,
                   stage2_results, stage3_result, title_task, rounds,
                   chairman, outcome, nreq>>

\* await round1_initial_positions / round_n_deliberation (which may raise),
\* rounds.append, yield round_complete
RoundComplete ==
    /\ UNCHANGED <<gateway, retry, aux>>
    /\ pc = "round_start"
    /\ UNCHANGED <<req, can_resume, stage1_results, s1todo, stage2_results,
                   stage3_result, title_task, chairman, nreq>>
    /\ \/ /\ Raise(messages, title, pending, Append(trace, "round"))
          /\ UNCHANGED <<rounds, round_events>>
       \/ /\ rounds' = Append(rounds, ArenaRound(Len(rounds) + 1))
          /\ round_events' =
                Append(round_events, round_complete(Last(rounds')))
          /\ trace' = trace \o <<"round", "round_complete">>
          /\ pc' = "round_complete"
          /\ UNCHANGED <<store, outcome>>

\* after round_complete: write {rounds}; yield the next round_start, or
\* synthesis_start after the last round
RoundProgress ==
    /\ UNCHANGED <<gateway, retry, aux>>
    /\ pc = "round_complete"
    /\ UNCHANGED <<req, can_resume, stage1_results, s1todo, stage2_results,
                   stage3_result, title_task, rounds, chairman, nreq>>
    /\ \/ /\ pending.present
          /\ Raise(messages, title, pending,
                   Append(trace, "update_pending_progress"))
          /\ UNCHANGED round_events
       \/ /\ pending' = update_pending_progress(pending, RoundsData(rounds))
          /\ pc' = IF Len(rounds) < req.round_count THEN "round_start"
                   ELSE "synthesis_start"
          /\ trace' = trace \o <<"update_pending_progress", pc'>>
          /\ round_events' =
                IF Len(rounds) < req.round_count
                THEN Append(round_events, round_start(Len(rounds) + 1))
                ELSE round_events
          /\ UNCHANGED <<messages, title, outcome>>

\* await final_synthesis, yield synthesis_complete
ArenaSynthesis ==
    /\ UNCHANGED <<gateway, retry, aux>>
    /\ pc = "synthesis_start"
    /\ \E reply \in ChairmanReplies :
          stage3_result' = final_synthesis(reply)
    /\ trace' = trace \o <<"chairman", "synthesis_complete">>
    /\ pc' = "synthesis_complete"
    /\ UNCHANGED <<store, req, can_resume, stage1_results, s1todo,
                   stage2_results, title_task, rounds, round_events, chairman, outcome, nreq>>

\* aggregate_arena_metrics, yield metrics_complete
ArenaMetrics ==
    /\ UNCHANGED <<gateway, retry, aux>>
    /\ pc = "synthesis_complete"
    /\ trace' = Append(trace, "metrics_complete")
    /\ pc' = "metrics_complete"
    /\ UNCHANGED <<store, local, outcome, nreq>>

\* -------------------------------------------------------- specification

Spec == Init /\ [][(\/ SendMessageStream
                    \/ ClearPendingStatus
                    \/ CouncilBegin
                    \/ ResumeStage1Complete
                    \/ WebSearch
                    \/ Stage1Start
                    \/ Stage1Launch
                    \/ Stage1ModelComplete
                    \/ Stage1Raise
                    \/ Stage1Complete
                    \/ Stage2Start
                    \/ Stage2
                    \/ Stage3Start
                    \/ Stage3
                    \/ MetricsComplete
                    \/ TitleComplete
                    \/ Persist
                    \/ Finish
                    \/ Abandon
                    \/ ArenaBegin
                    \/ ArenaStart
                    \/ Round1Start
                    \/ RoundComplete
                    \/ RoundProgress
                    \/ ArenaSynthesis
                    \/ ArenaMetrics)]_vars

\* ------------------------------------------- gateway calls (openrouter.py)
\* the tasks a fan-out over the list ms creates
Tasks(ms) == [m \in Range(ms) |-> NewTask]

\* stage1_collect_responses (council.py): the list that is queried
effective_council(council_models) ==
    IF council_models # <<>> THEN council_models ELSE Council

\* a direct call of query_model or query_model_streaming for one model
QueryModelCall ==
    /\ gpc = "idle"
    /\ \E e \in {"query_model", "query_model_streaming"}, m \in ModelIds :
          /\ call' = [entry |-> e, models |-> <<m>>, stream_tokens |-> FALSE]
          /\ task' = Tasks(<<m>>)
    /\ gpc' = "await"
    /\ UNCHANGED <<done, pending_tasks, completed_models, completion, results,
                   returned>>
    /\ UNCHANGED <<pipeline, retry, aux>>

\* stage1_collect_responses is called: query_models_parallel creates the
\* calls of the effective council and gathers them
Stage1CollectCall ==
    /\ gpc = "idle"
    /\ \E ms \in ModelLists :
          /\ call' = [entry |-> "stage1_collect_responses", models |-> ms,
                      stream_tokens |-> FALSE]
          /\ task' = Tasks(effective_council(ms))
    /\ gpc' = "gather"
    /\ UNCHANGED <<done, pending_tasks, completed_models, completion, results,
                   returned>>
    /\ UNCHANGED <<pipeline, retry, aux>>

\* query_models_progressive is called: one task per model; with no model
\* the wait loop is not entered and the empty dict is returned
ProgressiveCall ==
    /\ gpc = "idle"
    /\ \E ms \in ModelLists, st \in BOOLEAN :
          /\ call' = [entry |-> "query_models_progressive", models |-> ms,
                      stream_tokens |-> st]
          /\ task' = Tasks(ms)
          /\ pending_tasks' = Range(ms)
          /\ gpc' = IF ms = <<>> THEN "returned" ELSE "wait"
    /\ returned' = IF gpc' = "returned" THEN results ELSE returned
    /\ UNCHANGED <<done, completed_models, completion, results>>
    /\ UNCHANGED <<pipeline, retry, aux>>

\* variant: a call that ends in failure takes the calls still running with it
UpstreamAttempt_FailAll ==
    /\ gpc \in {"await", "gather", "wait", "loop"}
    /\ \E m \in DOMAIN task, o \in Outcomes(call) :
          LET t == QueryAttempt(task[m], m, Streaming(call), o) IN
          /\ task[m].state = "running"
          /\ task' = IF t.state = "done" /\ t.result = NoneValue
                     THEN [x \in DOMAIN task |->
                              IF x = m THEN t
                              ELSE IF task[x].state = "running"
                                   THEN [task[x] EXCEPT !.state = "done",
                                                        !.result = NoneValue]
                                   ELSE task[x]]
                     ELSE [task EXCEPT ![m] = t]
          /\ completion' = IF t.state = "done" THEN Append(completion, m)
                           ELSE completion
    /\ UNCHANGED <<call, gpc, done, pending_tasks, completed_models, results,
                   returned>>
    /\ UNCHANGED <<pipeline, retry, aux>>

\* one upstream attempt of the call of model m ends
UpstreamAttempt ==
    /\ gpc \in {"await", "gather", "wait", "loop"}
    /\ \E m \in DOMAIN task, o \in Outcomes(call) :
          LET t == QueryAttempt(task[m], m, Streaming(call), o) IN
          /\ task[m].state = "running"
          /\ task' = [task EXCEPT ![m] = t]
          /\ completion' = IF t.state = "done" THEN Append(completion, m)
                           ELSE completion
    /\ UNCHANGED <<call, gpc, done, pending_tasks, completed_models, results,
                   returned>>
    /\ UNCHANGED <<pipeline, retry, aux>>

\* the direct call returns to its caller
QueryModelReturn ==
    /\ gpc = "await"
    /\ \E m \in DOMAIN task :
          /\ task[m].state = "done"
          /\ returned' = task[m].result
    /\ gpc' = "returned"
    /\ UNCHANGED <<call, task, done, pending_tasks, completed_models,
                   completion, results>>
    /\ UNCHANGED <<pipeline, retry, aux>>

RECURSIVE Stage1Results(_, _)
\* stage1_collect_responses: the results of the models that answered
Stage1Results(ms, res) ==
    IF ms = <<>> THEN <<>>
    ELSE (IF res[ms[1]] # NoneValue THEN <<Stage1Result(ms[1])>> ELSE <<>>)
         \o Stage1Results(Tail(ms), res)

\* asyncio.gather returns when every call has terminated; the responses
\* are zipped with the models and stage1_collect_responses formats them
GatherReturn ==
    /\ gpc = "gather"
    /\ \A m \in DOMAIN task : task[m].state = "done"
    /\ results' = [m \in DOMAIN task |-> task[m].result]
    /\ returned' = Stage1Results(effective_council(call.models), results')
    /\ gpc' = "returned"
    /\ UNCHANGED <<call, task, done, pending_tasks, completed_models,
                   completion>>
    /\ UNCHANGED <<pipeline, retry, aux>>

\* asyncio.wait(pending, FIRST_COMPLETED) returns: done holds every pending
\* task that has terminated by now
WaitReturn ==
    /\ gpc = "wait"
    /\ \E m \in pending_tasks : task[m].state = "done"
    /\ done' = {m \in pending_tasks : task[m].state = "done"}
    /\ pending_tasks' = pending_tasks \ done'
    /\ gpc' = "loop"
    /\ UNCHANGED <<call, task, completed_models, completion, results, returned>>
    /\ UNCHANGED <<pipeline, retry, aux>>

\* variant: the function returns once the done set is worked off
ModelComplete_ReturnEarly ==
    /\ gpc = "loop"
    /\ \E m \in done :
          /\ results' = (m :> task[m].result) @@ results
          /\ completed_models' = Append(completed_models, m)
          /\ done' = done \ {m}
          /\ gpc' = IF done' # {} THEN "loop" ELSE "returned"
          /\ returned' = IF gpc' = "returned" THEN results' ELSE returned
    /\ UNCHANGED <<call, task, pending_tasks, completion>>
    /\ UNCHANGED <<pipeline, retry, aux>>

\* one pass of `for completed_task in done` (a set: any order): the result
\* is recorded, on_model_complete and on_progress are awaited; after the
\* last one the loop waits again, or the function returns results
ModelComplete ==
    /\ gpc = "loop"
    /\ \E m \in done :
          /\ results' = (m :> task[m].result) @@ results
          /\ completed_models' = Append(completed_models, m)
          /\ done' = done \ {m}
          /\ gpc' = IF done' # {} THEN "loop"
                    ELSE IF pending_tasks # {} THEN "wait" ELSE "returned"
          /\ returned' = IF gpc' = "returned" THEN results' ELSE returned
    /\ UNCHANGED <<call, task, pending_tasks, completion>>
    /\ UNCHANGED <<pipeline, retry, aux>>

SpecGateway == Init /\ [][(\/ QueryModelCall
                           \/ Stage1CollectCall
                           \/ ProgressiveCall
                           \/ UpstreamAttempt
                           \/ QueryModelReturn
                           \/ GatherReturn
                           \/ WaitReturn
                           \/ ModelComplete)]_vars

\* ------------------------------ retry_stage3_pipeline (council_stream.py)
\* The store of the conversation is `messages`.  Before the retry request it
\* is written by the stream endpoints and DELETE pending, which do not wait
\* for one another: a run appends its user message when it starts and its
\* assistant message when it completes, and DELETE pending removes the last
\* user message at any time in between.
StoredArenaMessage ==
    LET rs == <<ArenaRound(1), ArenaRound(2)>>
        synthesis == final_synthesis("Synthesis result")
    IN  convert_arena_to_unified_result(
            rs, synthesis, aggregate_arena_metrics(rs, synthesis))

run_state == <<title, pending, pc, req, can_resume, stage1_results, s1todo,
               stage2_results, stage3_result, title_task, rounds, round_events, trace,
               chairman, outcome, nreq>>

\* a stream request starts its run: add_user_message
StoreAddUser ==
    /\ rpc = "idle"
    /\ epc = "idle"
    /\ Len(messages) < MaxMessages
    /\ open_runs < MaxMessages
    /\ messages' = add_user_message(messages, Len(messages) + 1)
    /\ open_runs' = open_runs + 1
    /\ UNCHANGED <<rpc, retry_trace, retry_local, run_state, gateway, aux>>

\* DELETE pending: remove_last_user_message
StoreRemoveLastUser ==
    /\ rpc = "idle"
    /\ epc = "idle"
    /\ messages' = remove_last_user_message(messages)
    /\ UNCHANGED <<rpc, open_runs, retry_trace, retry_local, run_state,
                   gateway, aux>>

\* a run completes: add_unified_message
StoreAddAssistant ==
    /\ rpc = "idle"
    /\ epc = "idle"
    /\ open_runs > 0
    /\ Len(messages) < MaxMessages
    /\ \/ \E msg \in {convert_to_unified_result(s1, s2, stage3_synthesize_final(<<r>>).result) :
                         s1 \in {<<>>, FullStage1}, s2 \in {<<>>, FullStage2},
                         r \in ChairmanReplies} :
             messages' = add_unified_message(messages, msg)
       \/ messages' = add_unified_message(messages, StoredArenaMessage)
    /\ open_runs' = open_runs - 1
    /\ UNCHANGED <<rpc, retry_trace, retry_local, run_state, gateway, aux>>

RECURSIVE ScanBack(_, _, _)
\* the loop `for msg in reversed(conversation["messages"])`, from index i
\* down, with last_council_msg = msgs[last] (0: None): the indexes of
\* last_council_msg and of the message user_query is taken from when the
\* loop ends
ScanBack(msgs, i, last) ==
    IF i = 0 THEN [last_council_msg |-> last, user |-> 0]
    ELSE IF msgs[i].role = "assistant" /\ msgs[i].mode = "council"
         THEN ScanBack(msgs, i - 1, i)
         ELSE IF msgs[i].role = "user" /\ last # 0
              THEN [last_council_msg |-> last, user |-> i]
              ELSE ScanBack(msgs, i - 1, last)

\* the index of the most recent council assistant message, 0 without one
LastCouncilIndex(msgs) ==
    LET S == {i \in DOMAIN msgs :
                 msgs[i].role = "assistant" /\ msgs[i].mode = "council"}
    IN  IF S = {} THEN 0 ELSE CHOOSE i \in S : \A j \in S : j <= i

\* storage.update_last_council_stage3: the synthesis and the metrics of the
\* most recent council message are replaced
update_last_council_stage3(msgs, s3, metrics) ==
    [msgs EXCEPT ![LastCouncilIndex(msgs)] =
        [@ EXCEPT !.synthesis = s3, !.metrics = metrics]]

\* retry_stage3_pipeline up to its first yield: get_conversation, the scan
\* for the council message and the user query, the checks of the stage
\* data; yield error, or stage3_start
RetryBegin ==
    /\ rpc = "idle"
    /\ \E id \in {"conv", "missing"} :
          LET found == ScanBack(messages, Len(messages), 0)
              \* _extract_stage_data: rounds[0] and rounds[1] of a unified
              \* message, or the legacy keys, which a unified message does
              \* not have (<<>>: None)
              extract_stage_data(msg) ==
                  IF Len(msg.rounds) >= 2
                  THEN [stage1 |-> msg.rounds[1], stage2 |-> msg.rounds[2]]
                  ELSE [stage1 |-> <<>>, stage2 |-> <<>>]
              data == IF found.last_council_msg = 0
                      THEN [stage1 |-> <<>>, stage2 |-> <<>>]
                      ELSE extract_stage_data(
                               messages[found.last_council_msg])
              ok == /\ id = "conv"
                    /\ found.last_council_msg # 0
                    /\ data.stage1 # <<>>
                    /\ data.stage2 # <<>>
                    /\ found.user # 0
          IN  /\ retry_local' =
                    IF ok
                    THEN [NoRetry EXCEPT
                             !.conversation_id = id,
                             !.last_council_msg = found.last_council_msg,
                             !.user_query = messages[found.user].content,
                             !.stage1_results = data.stage1,
                             !.stage2_results = data.stage2]
                    ELSE [NoRetry EXCEPT !.conversation_id = id]
              /\ rpc' = IF ok THEN "stage3_start" ELSE "error"
              /\ retry_trace' = <<"get_conversation", rpc'>>
    /\ UNCHANGED <<messages, open_runs, run_state, gateway, aux>>

\* await stage3_synthesize_final; yield stage3_complete on either branch of
\* the "Error:" check
RetrySynthesize ==
    /\ rpc = "stage3_start"
    /\ \E r1 \in ChairmanReplies, r2 \in ChairmanReplies :
          LET s3 == stage3_synthesize_final(<<r1, r2>>) IN
          /\ retry_local' = [retry_local EXCEPT !.stage3_result = s3.result]
          /\ retry_trace' = retry_trace \o <<"stage3_synthesize_final">>
                            \o ChairmanCalls(s3.calls) \o <<"stage3_complete">>
          /\ rpc' = IF StartsWithError(s3.result.response)
                    THEN "stage3_complete_failed" ELSE "stage3_complete"
    /\ UNCHANGED <<messages, open_runs, run_state, gateway, aux>>

\* the chairman failed again: yield error and return
RetryFailedAgain ==
    /\ rpc = "stage3_complete_failed"
    /\ retry_trace' = Append(retry_trace, "error")
    /\ rpc' = "error"
    /\ UNCHANGED <<messages, open_runs, retry_local, run_state, gateway, aux>>

\* aggregate_metrics, yield metrics_complete
RetryMetrics ==
    /\ rpc = "stage3_complete"
    /\ retry_trace' = Append(retry_trace, "metrics_complete")
    /\ rpc' = "metrics_complete"
    /\ UNCHANGED <<messages, open_runs, retry_local, run_state, gateway, aux>>

\* update_last_council_stage3, yield complete; when the call raises, the
\* handler yields error
RetryPersist ==
    /\ rpc = "metrics_complete"
    /\ \/ /\ retry_trace' = retry_trace
                  \o <<"update_last_council_stage3", "raise", "error">>
          /\ rpc' = "error"
          /\ UNCHANGED messages
       \/ /\ messages' = update_last_council_stage3(
                             messages, retry_local.stage3_result,
                             aggregate_metrics(retry_local.stage1_results,
                                               retry_local.stage2_results,
                                               retry_local.stage3_result))
          /\ retry_trace' = retry_trace
                  \o <<"update_last_council_stage3", "complete">>
          /\ rpc' = "complete"
    /\ UNCHANGED <<open_runs, retry_local, run_state, gateway, aux>>

\* the generator is resumed after its last event and returns
RetryFinish ==
    /\ rpc \in {"error", "complete"}
    /\ rpc' = "returned"
    /\ UNCHANGED <<messages, open_runs, retry_trace, retry_local, run_state,
                   gateway, aux>>

\* the client goes away: the generator is closed where it is suspended
RetryAbandon ==
    /\ rpc \in {"stage3_start", "stage3_complete", "stage3_complete_failed",
                "metrics_complete"}
    /\ rpc' = "closed"
    /\ UNCHANGED <<messages, open_runs, retry_trace, retry_local, run_state,
                   gateway, aux>>

SpecRetry == Init /\ [][(\/ StoreAddUser
                         \/ StoreRemoveLastUser
                         \/ StoreAddAssistant
                         \/ RetryBegin
                         \/ RetrySynthesize
                         \/ RetryFailedAgain
                         \/ RetryMetrics
                         \/ RetryPersist
                         \/ RetryFinish
                         \/ RetryAbandon)]_vars

\* ================================================================ properties
\* --------------------------------- extend_arena_debate_stream (main.py)
\* the index of the last assistant message that is an arena debate, 0
\* without one: the scan of the endpoint and of update_last_arena_message
LastArenaIndex(msgs) ==
    LET S == {i \in DOMAIN msgs :
                 msgs[i].role = "assistant" /\ msgs[i].mode = "arena"}
    IN  IF S = {} THEN 0 ELSE CHOOSE i \in S : \A j \in S : j <= i

\* storage.update_last_arena_message: the last arena message is replaced
update_last_arena_message(msgs, result) ==
    [msgs EXCEPT ![LastArenaIndex(msgs)] = result]

\* the endpoint: get_conversation, the scan for the arena message and the
\* user message before it; 404, 400, or the streaming response is returned
ExtendRequest ==
    /\ epc = "idle"
    /\ rpc = "idle"
    /\ \E id \in {"conv", "missing"} :
          LET i == LastArenaIndex(messages)
              status == IF id # "conv" THEN "404"
                        ELSE IF i = 0 THEN "400"
                        ELSE IF i = 1 \/ messages[i - 1].role # "user"
                             THEN "400"
                             ELSE "200"
          IN  /\ status = "200" => Len(messages[i].rounds) <= MaxRounds
              /\ extend_local' =
                    IF status = "200"
                    THEN [NoExtend EXCEPT
                             !.status = status,
                             !.message_count = Len(messages),
                             !.last_arena_msg = i,
                             !.existing_rounds = messages[i].rounds,
                             !.original_query = messages[i - 1].content]
                    ELSE [NoExtend EXCEPT !.status = status]
              /\ epc' = IF status = "200" THEN "start" ELSE "idle"
              /\ extend_trace' = <<"get_conversation", status>>
    /\ UNCHANGED <<pipeline, gateway, retry, streams, shutting_down, now,
                   marker, tracker_call, auth_call, labels_call,
                   rankings_call, roundtrip_call, file, shared_client, calls,
                   streaming_call, fanout, bridge, pending_file, tracker_op>>

\* the generator up to its first yield: the check of the stored data, the
\* ArenaRound objects, the new round number; yield error, or extend_start
ExtendBegin ==
    /\ epc = "start"
    /\ IF extend_local.existing_rounds = <<>>
       THEN /\ epc' = "error"
            /\ extend_trace' = Append(extend_trace, "error")
            /\ UNCHANGED extend_local
       ELSE /\ extend_local' =
                  [extend_local EXCEPT
                      !.arena_rounds = extend_local.existing_rounds,
                      !.new_round_number =
                          Len(extend_local.existing_rounds) + 1,
                      !.new_total_rounds =
                          Len(extend_local.existing_rounds) + 1]
            /\ epc' = "extend_start"
            /\ extend_trace' = Append(extend_trace, "extend_start")
    /\ UNCHANGED <<pipeline, gateway, retry, streams, shutting_down, now,
                   marker, tracker_call, auth_call, labels_call,
                   rankings_call, roundtrip_call, file, shared_client, calls,
                   streaming_call, fanout, bridge, pending_file, tracker_op>>

\* yield round_start
ExtendRoundStart ==
    /\ epc = "extend_start"
    /\ epc' = "round_start"
    /\ extend_trace' = Append(extend_trace, "round_start")
    /\ UNCHANGED <<pipeline, gateway, retry, streams, shutting_down, now,
                   marker, tracker_call, auth_call, labels_call,
                   rankings_call, roundtrip_call, file, shared_client, calls,
                   streaming_call, fanout, bridge, pending_file, tracker_op,
                   extend_local>>

\* await round_n_deliberation (which may raise), arena_rounds.append, yield
\* round_complete
ExtendRound ==
    /\ epc = "round_start"
    /\ \/ /\ epc' = "error"
          /\ extend_trace' =
                extend_trace \o <<"round_n_deliberation", "raise", "error">>
          /\ UNCHANGED extend_local
       \/ \E answered \in SUBSET ModelIds :
             /\ extend_local' =
                   [extend_local EXCEPT
                       !.arena_rounds =
                           Append(@, round_n_deliberation(
                                         extend_local.new_round_number,
                                         answered)),
                       !.queried =
                           Append(@, extend_local.new_round_number)]
             /\ epc' = "round_complete"
             /\ extend_trace' =
                   extend_trace \o <<"round_n_deliberation", "round_complete">>
    /\ UNCHANGED <<pipeline, gateway, retry, streams, shutting_down, now,
                   marker, tracker_call, auth_call, labels_call,
                   rankings_call, roundtrip_call, file, shared_client, calls,
                   streaming_call, fanout, bridge, pending_file, tracker_op>>

\* yield synthesis_start
ExtendSynthesisStart ==
    /\ epc = "round_complete"
    /\ epc' = "synthesis_start"
    /\ extend_trace' = Append(extend_trace, "synthesis_start")
    /\ UNCHANGED <<pipeline, gateway, retry, streams, shutting_down, now,
                   marker, tracker_call, auth_call, labels_call,
                   rankings_call, roundtrip_call, file, shared_client, calls,
                   streaming_call, fanout, bridge, pending_file, tracker_op,
                   extend_local>>

\* await final_synthesis, yield synthesis_complete
ExtendSynthesis ==
    /\ epc = "synthesis_start"
    /\ \E reply \in ChairmanReplies :
          extend_local' =
              [extend_local EXCEPT !.synthesis = final_synthesis(reply)]
    /\ epc' = "synthesis_complete"
    /\ extend_trace' =
          extend_trace \o <<"final_synthesis", "synthesis_complete">>
    /\ UNCHANGED <<pipeline, gateway, retry, streams, shutting_down, now,
                   marker, tracker_call, auth_call, labels_call,
                   rankings_call, roundtrip_call, file, shared_client, calls,
                   streaming_call, fanout, bridge, pending_file, tracker_op>>

\* aggregate_arena_metrics, yield metrics_complete
ExtendMetrics ==
    /\ epc = "synthesis_complete"
    /\ epc' = "metrics_complete"
    /\ extend_trace' = Append(extend_trace, "metrics_complete")
    /\ UNCHANGED <<pipeline, gateway, retry, streams, shutting_down, now,
                   marker, tracker_call, auth_call, labels_call,
                   rankings_call, roundtrip_call, file, shared_client, calls,
                   streaming_call, fanout, bridge, pending_file, tracker_op,
                   extend_local>>

\* convert_arena_to_unified_result, update_last_arena_message, yield
\* complete; when the storage call raises, the handler yields error
ExtendPersist ==
    /\ epc = "metrics_complete"
    /\ \/ /\ epc' = "error"
          /\ extend_trace' = extend_trace
                \o <<"update_last_arena_message", "raise", "error">>
          /\ UNCHANGED messages
       \/ /\ messages' =
                update_last_arena_message(
                    messages,
                    convert_arena_to_unified_result(
                        extend_local.arena_rounds, extend_local.synthesis,
                        aggregate_arena_metrics(extend_local.arena_rounds,
                                                extend_local.synthesis)))
          /\ epc' = "complete"
          /\ extend_trace' = extend_trace
                \o <<"update_last_arena_message", "complete">>
    /\ UNCHANGED <<run_state, gateway, retry, streams, shutting_down, now,
                   marker, tracker_call, auth_call, labels_call,
                   rankings_call, roundtrip_call, file, shared_client, calls,
                   streaming_call, fanout, bridge, pending_file, tracker_op,
                   extend_local>>

\* the generator is resumed after its last event and returns, or the client
\* goes away and the generator is closed where it is suspended
ExtendFinish ==
    /\ epc \notin {"idle", "start"}
    /\ epc' = "idle"
    /\ extend_trace' = <<>>
    /\ extend_local' = NoExtend
    /\ UNCHANGED <<pipeline, gateway, retry, streams, shutting_down, now,
                   marker, tracker_call, auth_call, labels_call,
                   rankings_call, roundtrip_call, file, shared_client, calls,
                   streaming_call, fanout, bridge, pending_file, tracker_op>>

SpecExtend == Init /\ [][(\/ StoreAddUser
                          \/ StoreRemoveLastUser
                          \/ StoreAddAssistant
                          \/ ExtendRequest
                          \/ ExtendBegin
                          \/ ExtendRoundStart
                          \/ ExtendRound
                          \/ ExtendSynthesisStart
                          \/ ExtendSynthesis
                          \/ ExtendMetrics
                          \/ ExtendPersist
                          \/ ExtendFinish)]_vars

\* ----------------------- stream requests that overlap (main.py, shutdown.py)

\* the generator of a stream yields an SSE frame: it is written to the
\* response whatever is_shutting_down says
Yield(st, event) ==
    [st EXCEPT !.frames = Append(@, event),
               !.late = IF shutting_down THEN Append(@, event) ELSE @]

\* send_message_stream: 404 without the conversation; otherwise the
\* generator of the mode is created and the streaming response returned
StreamRequest(r) ==
    /\ streams[r].status = "none"
    /\ \A q \in 1..(r - 1) : streams[q].status # "none"
    /\ \E id \in {"conv", "missing"}, m \in {"council", "arena"} :
          streams' = [streams EXCEPT ![r] =
              IF id = "conv"
              THEN [@ EXCEPT !.status = "200", !.mode = m, !.spc = "start"]
              ELSE [@ EXCEPT !.status = "404"]]
    /\ UNCHANGED <<pipeline, gateway, retry, epc, extend_trace, extend_local,
                   now, marker, tracker_call, auth_call, labels_call,
                   rankings_call, roundtrip_call, file, shared_client, calls,
                   streaming_call, fanout, bridge, pending_file, tracker_op,
                   shutting_down>>

\* the generator up to its first yield: add_user_message,
\* mark_response_pending, the first event of the mode
StreamBegin(r) ==
    /\ streams[r].spc = "start"
    /\ messages' = add_user_message(messages, r)
    /\ pending' = mark_response_pending(streams[r].mode, r)
    /\ streams' = [streams EXCEPT ![r] =
          Yield([@ EXCEPT !.spc = "running"],
                IF @.mode = "council" THEN "stage1_start" ELSE "arena_start")]
    /\ UNCHANGED <<title, pc, req, can_resume, stage1_results, s1todo,
                   stage2_results, stage3_result, title_task, rounds,
                   round_events, trace, chairman, outcome, nreq, gateway,
                   retry, epc, extend_trace, extend_local, now, marker,
                   tracker_call, auth_call, labels_call, rankings_call,
                   roundtrip_call, file, shared_client, calls, streaming_call,
                   fanout, bridge, pending_file, tracker_op, shutting_down>>

\* the first stage or round is done: its event, update_pending_progress
StreamProgress(r) ==
    /\ streams[r].spc = "running"
    /\ pending' = update_pending_progress(
                      pending,
                      IF streams[r].mode = "council"
                      THEN Stage1Data(FullStage1)
                      ELSE RoundsData(<<ArenaRound(1)>>))
    /\ streams' = [streams EXCEPT ![r] =
          Yield([@ EXCEPT !.spc = "progressed"],
                IF @.mode = "council" THEN "stage1_complete"
                ELSE "round_complete")]
    /\ UNCHANGED <<messages, title, pc, req, can_resume, stage1_results,
                   s1todo, stage2_results, stage3_result, title_task, rounds,
                   round_events, trace, chairman, outcome, nreq, gateway,
                   retry, epc, extend_trace, extend_local, now, marker,
                   tracker_call, auth_call, labels_call, rankings_call,
                   roundtrip_call, file, shared_client, calls, streaming_call,
                   fanout, bridge, pending_file, tracker_op, shutting_down>>

\* the run succeeds: add_unified_message, clear_pending, yield complete
StreamComplete(r) ==
    /\ streams[r].spc = "progressed"
    /\ messages' =
          add_unified_message(
              messages,
              IF streams[r].mode = "council"
              THEN convert_to_unified_result(
                       FullStage1, FullStage2,
                       stage3_synthesize_final(<<"Synthesis result">>).result)
              ELSE StoredArenaMessage)
    /\ pending' = clear_pending(pending)
    /\ streams' = [streams EXCEPT ![r] =
          Yield([@ EXCEPT !.spc = "complete"], "complete")]
    /\ UNCHANGED <<title, pc, req, can_resume, stage1_results, s1todo,
                   stage2_results, stage3_result, title_task, rounds,
                   round_events, trace, chairman, outcome, nreq, gateway,
                   retry, epc, extend_trace, extend_local, now, marker,
                   tracker_call, auth_call, labels_call, rankings_call,
                   roundtrip_call, file, shared_client, calls, streaming_call,
                   fanout, bridge, pending_file, tracker_op, shutting_down>>

\* an exception in the run: update_pending_progress({"error"}), yield error
StreamError(r) ==
    /\ streams[r].spc \in {"running", "progressed"}
    /\ pending' = update_pending_progress(pending, ErrorData)
    /\ streams' = [streams EXCEPT ![r] =
          Yield([@ EXCEPT !.spc = "error"], "error")]
    /\ UNCHANGED <<messages, title, pc, req, can_resume, stage1_results,
                   s1todo, stage2_results, stage3_result, title_task, rounds,
                   round_events, trace, chairman, outcome, nreq, gateway,
                   retry, epc, extend_trace, extend_local, now, marker,
                   tracker_call, auth_call, labels_call, rankings_call,
                   roundtrip_call, file, shared_client, calls, streaming_call,
                   fanout, bridge, pending_file, tracker_op, shutting_down>>

\* the generator is resumed after its last event and returns, or the client
\* goes away and the generator is closed where it is suspended
StreamEnd(r) ==
    /\ streams[r].spc \in {"running", "progressed", "complete", "error"}
    /\ streams' = [streams EXCEPT ![r].spc =
          IF @ \in {"complete", "error"} THEN "returned" ELSE "closed"]
    /\ UNCHANGED <<pipeline, gateway, retry, epc, extend_trace, extend_local,
                   now, marker, tracker_call, auth_call, labels_call,
                   rankings_call, roundtrip_call, file, shared_client, calls,
                   streaming_call, fanout, bridge, pending_file, tracker_op,
                   shutting_down>>

\* ShutdownCoordinator.initiate_shutdown
initiate_shutdown ==
    /\ shutting_down' = TRUE
    /\ UNCHANGED <<pipeline, gateway, retry, epc, extend_trace, extend_local,
                   now, marker, tracker_call, auth_call, labels_call,
                   rankings_call, roundtrip_call, file, shared_client, calls,
                   streaming_call, fanout, bridge, pending_file, tracker_op,
                   streams>>

SpecStreams == Init /\ [][(\/ \E r \in 1..MaxStreams : StreamRequest(r)
                           \/ \E r \in 1..MaxStreams : StreamBegin(r)
                           \/ \E r \in 1..MaxStreams : StreamProgress(r)
                           \/ \E r \in 1..MaxStreams : StreamComplete(r)
                           \/ \E r \in 1..MaxStreams : StreamError(r)
                           \/ \E r \in 1..MaxStreams : StreamEnd(r)
                           \/ initiate_shutdown)]_vars

\* --------------------------------------- the pending tracker (storage.py)
\* time passes
Tick ==
    /\ \E t \in {0, 1, 600, 601} : t > now /\ now' = t
    /\ UNCHANGED <<pipeline, gateway, retry, epc, extend_trace, extend_local,
                   streams, shutting_down, auth_call, labels_call,
                   rankings_call, roundtrip_call, file, shared_client, calls,
                   streaming_call, fanout, bridge, pending_file, tracker_op,
                   marker, tracker_call>>

\* mark_response_pending
TrackerMark ==
    /\ \E m \in {"council", "arena"} :
          marker' = timed_mark_response_pending(m, 1, now)
    /\ tracker_call' = [NoTrackerCall EXCEPT
          !.op = "mark_response_pending", !.at = now, !.before = marker]
    /\ UNCHANGED <<pipeline, gateway, retry, epc, extend_trace, extend_local,
                   streams, shutting_down, auth_call, labels_call,
                   rankings_call, roundtrip_call, file, shared_client, calls,
                   streaming_call, fanout, bridge, pending_file, tracker_op,
                   now>>

\* update_pending_progress
TrackerUpdate ==
    /\ \E d \in {Stage1Data(FullStage1), Stage2Data(FullStage1, FullStage2),
                 RoundsData(<<ArenaRound(1)>>), ErrorData} :
          /\ marker' = timed_update_pending_progress(marker, d, now)
          /\ tracker_call' = [NoTrackerCall EXCEPT
                !.op = "update_pending_progress", !.at = now,
                !.before = marker, !.partial_data = d]
    /\ UNCHANGED <<pipeline, gateway, retry, epc, extend_trace, extend_local,
                   streams, shutting_down, auth_call, labels_call,
                   rankings_call, roundtrip_call, file, shared_client, calls,
                   streaming_call, fanout, bridge, pending_file, tracker_op,
                   now>>

\* clear_pending
TrackerClear ==
    /\ marker.present
    /\ marker' = NoTimedMarker
    /\ tracker_call' = [NoTrackerCall EXCEPT
          !.op = "clear_pending", !.at = now, !.before = marker]
    /\ UNCHANGED <<pipeline, gateway, retry, epc, extend_trace, extend_local,
                   streams, shutting_down, auth_call, labels_call,
                   rankings_call, roundtrip_call, file, shared_client, calls,
                   streaming_call, fanout, bridge, pending_file, tracker_op,
                   now>>

\* is_pending_stale, called with the stored marker or with a marker dict
\* whose timestamp keys are missing or damaged
TrackerIsStale ==
    LET \* the timestamps a marker dict can hold now: none, a string
        \* fromisoformat rejects, or an instant that has passed
        Stamps == {[kind |-> "absent", at |-> 0],
                   [kind |-> "unparseable", at |-> 0]}
                  \cup {Time(u) : u \in {v \in {0, 1, 600, 601} : v <= now}}
    IN
    /\ \E started_at \in Stamps, last_update \in Stamps,
          timeout_seconds \in {PENDING_STALE_TIMEOUT_SECONDS, 1} :
          LET pending_info ==
                  [timed_mark_response_pending("council", 1, now) EXCEPT
                      !.started_at = started_at,
                      !.last_update = last_update]
          IN  tracker_call' =
                  [op |-> "is_pending_stale", at |-> now,
                   before |-> pending_info, partial_data |-> EmptyData,
                   timeout_seconds |-> timeout_seconds,
                   result |-> is_pending_stale(pending_info, timeout_seconds,
                                               now)]
    /\ UNCHANGED <<pipeline, gateway, retry, epc, extend_trace, extend_local,
                   streams, shutting_down, auth_call, labels_call,
                   rankings_call, roundtrip_call, file, shared_client, calls,
                   streaming_call, fanout, bridge, pending_file, tracker_op,
                   now, marker>>

SpecTracker == Init /\ [][(\/ Tick
                           \/ TrackerMark
                           \/ TrackerUpdate
                           \/ TrackerClear
                           \/ TrackerIsStale)]_vars

\* --------------------------------------------- requests to get_current_user

\* a request reaches an endpoint that depends on get_current_user
GetCurrentUser ==
    LET public == <<203, 0, 113, 7>>
        private == <<10, 1, 2, 3>>
        \* peers inside and outside the trusted networks; <<>> is no peer
        Peers == {Loopback, private, <<172, 16, 0, 9>>, <<172, 32, 0, 9>>,
                  <<192, 168, 1, 1>>, <<192, 169, 1, 1>>, public, <<>>}
        \* the addresses of an X-Forwarded-For header; <<>> is no header
        ForwardedFor == {<<>>, <<Loopback>>, <<public>>,
                         <<private, public>>, <<public, Loopback>>}
    IN
    /\ \E enabled \in BOOLEAN, client \in Peers, forwarded \in ForwardedFor,
          remote_user \in {NoHeader, "admin"},
          remote_groups \in {NoHeader, "admins"} :
          LET request == [client |-> client, forwarded |-> forwarded,
                          remote_user |-> remote_user,
                          remote_email |-> NoHeader,
                          remote_groups |-> remote_groups,
                          remote_name |-> NoHeader]
          IN  auth_call' = [auth_enabled |-> enabled, request |-> request,
                            user |-> get_current_user(enabled, request),
                            called |-> TRUE]
    /\ UNCHANGED <<pipeline, gateway, retry, epc, extend_trace, extend_local,
                   streams, shutting_down, now, marker, tracker_call,
                   labels_call, rankings_call, roundtrip_call, file,
                   shared_client, calls, streaming_call, fanout, bridge,
                   pending_file, tracker_op>>

SpecAuth == Init /\ [][GetCurrentUser]_vars

\* ------------------------------------- the two places that assign labels
\* stage2_collect_rankings labels the Stage 1 responses it is given
Stage2Labels ==
    /\ \E count \in 0..MaxResponses :
          labels_call' = [site |-> "stage2_collect_rankings", count |-> count,
                          labels |-> response_labels(count)]
    /\ UNCHANGED <<pipeline, gateway, retry, epc, extend_trace, extend_local,
                   streams, shutting_down, now, marker, tracker_call,
                   auth_call, rankings_call, roundtrip_call, file,
                   shared_client, calls, streaming_call, fanout, bridge,
                   pending_file, tracker_op>>

\* convert_to_unified_result labels the responses of round 1
Round1Labels ==
    /\ \E count \in 0..MaxResponses :
          labels_call' = [site |-> "convert_to_unified_result",
                          count |-> count,
                          labels |-> response_labels(count)]
    /\ UNCHANGED <<pipeline, gateway, retry, epc, extend_trace, extend_local,
                   streams, shutting_down, now, marker, tracker_call,
                   auth_call, rankings_call, roundtrip_call, file,
                   shared_client, calls, streaming_call, fanout, bridge,
                   pending_file, tracker_op>>

SpecLabels == Init /\ [][(\/ Stage2Labels
                          \/ Round1Labels)]_vars

\* ---------------------------------- calls of calculate_aggregate_rankings

\* Stage 2 is over: the aggregate rankings of one or two evaluators
AggregateRankingsCall ==
    LET \* the mentions of a ranking section: the labels of the responses and
        \* one that no response has, in a numbered list or not
        Mentions ==
            {[label |-> l, numbered |-> FALSE] : l \in {"A", "B", "Z"}}
            \cup {[label |-> l, numbered |-> TRUE] : l \in {"A", "B"}}
        \* the ranking sections of at most MaxTokens mentions
        RankingSections == UNION {[1..k -> Mentions] : k \in 0..MaxTokens}
    IN
    /\ ~rankings_call.called
    /\ \E N \in 1..2, e \in 1..2 :
       \E rankings \in [1..e -> RankingSections] :
          LET \* label_to_model of N responses: A -> m1, B -> m2
              label_to_model ==
                  [label \in {<<"A", "B">>[i] : i \in 1..N} |->
                      IF label = "A" THEN "m1" ELSE "m2"]
              model_positions == ModelPositions(rankings, label_to_model)
          IN  rankings_call' =
                  [called |-> TRUE, labels |-> N,
                   stage2_results |-> rankings,
                   model_positions |-> model_positions,
                   aggregate |->
                       calculate_aggregate_rankings(model_positions)]
    /\ UNCHANGED <<pipeline, gateway, retry, epc, extend_trace, extend_local,
                   streams, shutting_down, now, marker, tracker_call,
                   auth_call, labels_call, roundtrip_call, file,
                   shared_client, calls, streaming_call, fanout, bridge,
                   pending_file, tracker_op>>

SpecRankings == Init /\ [][AggregateRankingsCall]_vars

\* ------------------------------------------ to_dict followed by from_dict
\* a result is written with to_dict and read back with from_dict
RoundTrip ==
    LET \* Metrics objects: all fields zero with no, an empty or a named
        \* provider, and one with a cost
        zero(p) == [cost |-> 0, total_tokens |-> 0, latency_ms |-> 0,
                    provider |-> p]
        OptionalMetrics ==
            {None, Some(zero(None)), Some(zero(Some(""))),
             Some(zero(Some("openai"))),
             Some([cost |-> 1, total_tokens |-> 100, latency_ms |-> 10,
                   provider |-> Some("openai")])}
        OptionalText == {None, Some(""), Some("thinking")}
        ParticipantResponses ==
            {[participant |-> "Response A", model |-> "m1",
              content |-> "text", metrics |-> m, reasoning_details |-> r,
              parsed_ranking |-> p] :
                m \in OptionalMetrics, r \in OptionalText,
                p \in {None, Some(<<>>), Some(<<"Response B">>)}}
        \* rounds of at most MaxParticipants responses
        Rounds ==
            {[round_number |-> 1, round_type |-> t, responses |-> rs,
              metadata |-> md, metrics |-> m] :
                t \in {[enum |-> TRUE, value |-> "rankings"],
                       [enum |-> FALSE, value |-> "rankings"],
                       [enum |-> FALSE, value |-> "custom"]},
                rs \in UNION {[1..n -> ParticipantResponses] :
                                n \in 0..MaxParticipants},
                md \in {{}, {"label_to_model"}},
                m \in {None, Some(zero(None))}}
        Syntheses ==
            {[model |-> "chairman", content |-> "answer", metrics |-> m,
              reasoning_details |-> r] :
                m \in OptionalMetrics, r \in OptionalText}
        \* results of one round, and results of no round with or without a
        \* synthesis
        DeliberationResults ==
            {[EmptyResult EXCEPT !.rounds = <<r>>] : r \in Rounds}
            \cup {[mode |-> "arena", rounds |-> <<>>, synthesis |-> sy,
                    participant_mapping |-> pm, metrics |-> ms] :
                      sy \in {None} \cup {Some(z) : z \in Syntheses},
                      pm \in {{}, {"Participant A"}},
                      ms \in {{}, {"total_cost"}}}
    IN
    /\ ~roundtrip_call.called
    /\ \E x \in DeliberationResults :
          LET data == DeliberationResult_to_dict(x)
          IN  roundtrip_call' =
                  [called |-> TRUE, x |-> x, data |-> data,
                   y |-> DeliberationResult_from_dict(data)]
    /\ UNCHANGED <<pipeline, gateway, retry, epc, extend_trace, extend_local,
                   streams, shutting_down, now, marker, tracker_call,
                   auth_call, labels_call, rankings_call, file, shared_client,
                   calls, streaming_call, fanout, bridge, pending_file,
                   tracker_op>>

SpecRoundTrip == Init /\ [][RoundTrip]_vars

\* ------------------------------- the conversation file (storage.py)
\* A stored message holds its legacy keys (stage1, stage2, stage3), or the
\* unified dict, or neither (a user message).
\* migrate_legacy_messages: an assistant message with the key stage1 and
\* without the key rounds goes through convert_legacy_message_to_unified,
\* which returns it unchanged when stage1 is empty
migrate_legacy_messages(msgs) ==
    [i \in DOMAIN msgs |->
        IF /\ msgs[i].role = "assistant"
           /\ msgs[i].legacy # None
           /\ msgs[i].legacy[1].stage1 # <<>>
        THEN [msgs[i] EXCEPT
                 !.legacy = None,
                 !.unified = Some(<<msgs[i].legacy[1].stage1,
                                    msgs[i].legacy[1].stage2,
                                    msgs[i].legacy[1].stage3>>)]
        ELSE msgs[i]]

\* update_conversation_title: get_conversation(), set the title, save
FileUpdateTitle ==
    /\ \E t \in {"Title", "Other title"} :
          file' = [title |-> t,
                   messages |-> migrate_legacy_messages(file.messages)]
    /\ UNCHANGED <<pipeline, gateway, retry, epc, extend_trace, extend_local,
                   streams, shutting_down, now, marker, tracker_call,
                   auth_call, labels_call, rankings_call, roundtrip_call,
                   shared_client, calls, streaming_call, fanout, bridge,
                   pending_file, tracker_op>>

\* remove_last_user_message: get_conversation(); the file is saved only when
\* the last message is a user message
FileRemoveLastUser ==
    /\ LET messages_read == migrate_legacy_messages(file.messages)
       IN  file' = IF messages_read # <<>> /\ Last(messages_read).role = "user"
                   THEN [file EXCEPT !.messages =
                            SubSeq(messages_read, 1, Len(messages_read) - 1)]
                   ELSE file
    /\ UNCHANGED <<pipeline, gateway, retry, epc, extend_trace, extend_local,
                   streams, shutting_down, now, marker, tracker_call,
                   auth_call, labels_call, rankings_call, roundtrip_call,
                   shared_client, calls, streaming_call, fanout, bridge,
                   pending_file, tracker_op>>

\* add_user_message: get_conversation(migrate_messages=False), append, save
FileAddUser ==
    /\ Len(file.messages) < MaxStored
    /\ \E content \in 1..2 :
          file' = [file EXCEPT !.messages = Append(@,
                      [role |-> "user", content |-> content,
                       legacy |-> None, unified |-> None])]
    /\ UNCHANGED <<pipeline, gateway, retry, epc, extend_trace, extend_local,
                   streams, shutting_down, now, marker, tracker_call,
                   auth_call, labels_call, rankings_call, roundtrip_call,
                   shared_client, calls, streaming_call, fanout, bridge,
                   pending_file, tracker_op>>

\* add_unified_message: get_conversation(migrate_messages=False), append the
\* dict of the result, save
FileAddUnified ==
    /\ Len(file.messages) < MaxStored
    /\ \E s3 \in {"Synthesis result", ErrorResponse} :
          file' = [file EXCEPT !.messages = Append(@,
                      [role |-> "assistant", content |-> 0, legacy |-> None,
                       unified |-> Some(<<FullStage1, FullStage2, s3>>)])]
    /\ UNCHANGED <<pipeline, gateway, retry, epc, extend_trace, extend_local,
                   streams, shutting_down, now, marker, tracker_call,
                   auth_call, labels_call, rankings_call, roundtrip_call,
                   shared_client, calls, streaming_call, fanout, bridge,
                   pending_file, tracker_op>>

SpecMigration ==
    Init /\ [][\/ FileUpdateTitle
               \/ FileRemoveLastUser
               \/ FileAddUser
               \/ FileAddUnified]_vars

\* ------------------------------------------------ the shared HTTP client

\* get_shared_client(timeout): the module-level client is created with the
\* timeout of the call that finds none (or a closed one) and returned as it
\* is by every later call
get_shared_client(client, timeout) ==
    IF client = None THEN Some([timeout |-> timeout]) ELSE client

\* query_model / query_model_streaming: client = get_shared_client(timeout);
\* client.post(...) and client.stream(...) pass no timeout of their own, so
\* the request runs under the timeout of the client
GatewayCall ==
    /\ Len(calls) < MaxCalls
    /\ \E timeout \in {120, 30} :
          LET client == get_shared_client(shared_client, timeout)
          IN  /\ shared_client' = client
              /\ calls' = Append(calls, [timeout |-> timeout,
                                         in_effect |-> client[1].timeout])
    /\ UNCHANGED <<pipeline, gateway, retry, epc, extend_trace, extend_local,
                   streams, shutting_down, now, marker, tracker_call,
                   auth_call, labels_call, rankings_call, roundtrip_call,
                   file, streaming_call, fanout, bridge, pending_file,
                   tracker_op>>

\* close_shared_client: closes the client and forgets it
CloseSharedClient ==
    /\ shared_client # None
    /\ shared_client' = None
    /\ UNCHANGED <<pipeline, gateway, retry, epc, extend_trace, extend_local,
                   streams, shutting_down, now, marker, tracker_call,
                   auth_call, labels_call, rankings_call, roundtrip_call,
                   file, streaming_call, fanout, bridge, pending_file,
                   tracker_op, calls>>

SpecClient == Init /\ [][\/ GatewayCall \/ CloseSharedClient]_vars

\* ------------------------------- query_model_streaming: deltas and retries
\* A text is the sequence of its characters, so that joining is concatenation.
RECURSIVE Join(_)
\* "".join(content_chunks)
Join(chunks) ==
    IF chunks = <<>> THEN <<>> ELSE Head(chunks) \o Join(Tail(chunks))

\* one `data:` line of the response is read: a non-empty delta content is
\* appended to content_chunks (and handed to on_token), a usage block
\* replaces usage
StreamLine ==
    /\ streaming_call.task.state = "running"
    /\ streaming_call.lines < MaxLines
    /\ \E line \in {[content |-> Some(<<"a">>), usage |-> None],
                    [content |-> Some(<<"b">>), usage |-> None],
                    [content |-> Some(<<>>), usage |-> None],
                    [content |-> None, usage |-> Some(1)],
                    [content |-> Some(<<"a">>), usage |-> Some(2)]} :
          LET n == Len(streaming_call.received) IN
          streaming_call' =
              [streaming_call EXCEPT
                  !.lines = @ + 1,
                  !.content_chunks =
                      IF line.content # None /\ line.content[1] # <<>>
                      THEN Append(@, line.content[1]) ELSE @,
                  !.usage = IF line.usage # None THEN line.usage ELSE @,
                  !.received[n].deltas =
                      IF line.content # None THEN Append(@, line.content[1])
                      ELSE @,
                  !.received[n].usage =
                      IF line.usage # None THEN line.usage ELSE @]
    /\ UNCHANGED <<pipeline, gateway, retry, epc, extend_trace, extend_local,
                   streams, shutting_down, now, marker, tracker_call,
                   auth_call, labels_call, rankings_call, roundtrip_call,
                   file, shared_client, calls, fanout, bridge, pending_file,
                   tracker_op>>

\* variant: the chunks of a failed attempt are kept for the next attempt
AttemptEnd_KeepChunks ==
    /\ streaming_call.task.state = "running"
    /\ \E o \in Outcomes([entry |-> "query_model_streaming",
                          stream_tokens |-> FALSE]) :
          LET t == QueryAttempt(streaming_call.task, "m1", TRUE, o) IN
          /\ o \in UpstreamStatuses \ {"200"} =>
                Last(streaming_call.received).deltas = <<>>
                /\ Last(streaming_call.received).usage = None
          /\ streaming_call' =
                IF o = "200"
                THEN [streaming_call EXCEPT
                         !.task = t,
                         !.result = Some(
                            [content |-> Join(streaming_call.content_chunks),
                             total_tokens |->
                                 IF streaming_call.usage = None THEN 0
                                 ELSE streaming_call.usage[1]])]
                ELSE IF t.state = "running"
                THEN [streaming_call EXCEPT
                         !.task = t,
                         !.received = Append(@, [deltas |-> <<>>,
                                                 usage |-> None])]
                ELSE [streaming_call EXCEPT !.task = t]
    /\ UNCHANGED <<pipeline, gateway, retry, epc, extend_trace, extend_local,
                   streams, shutting_down, now, marker, tracker_call,
                   auth_call, labels_call, rankings_call, roundtrip_call,
                   file, shared_client, calls, fanout, bridge, pending_file,
                   tracker_op>>

\* the attempt ends: the stream is read to its end and the result is built
\* from content_chunks and usage of this attempt; or the attempt fails (an
\* HTTP status before the first line, a timeout or an exception at any
\* point) and the loop goes round again with content_chunks = [] and
\* usage = {}, or None is returned
AttemptEnd ==
    /\ streaming_call.task.state = "running"
    /\ \E o \in Outcomes([entry |-> "query_model_streaming",
                          stream_tokens |-> FALSE]) :
          LET t == QueryAttempt(streaming_call.task, "m1", TRUE, o) IN
          /\ o \in UpstreamStatuses \ {"200"} =>
                Last(streaming_call.received).deltas = <<>>
                /\ Last(streaming_call.received).usage = None
          /\ streaming_call' =
                IF o = "200"
                THEN [streaming_call EXCEPT
                         !.task = t,
                         !.result = Some(
                            [content |-> Join(streaming_call.content_chunks),
                             total_tokens |->
                                 IF streaming_call.usage = None THEN 0
                                 ELSE streaming_call.usage[1]])]
                ELSE IF t.state = "running"
                THEN [streaming_call EXCEPT
                         !.task = t,
                         !.content_chunks = <<>>,
                         !.usage = None,
                         !.received = Append(@, [deltas |-> <<>>,
                                                 usage |-> None])]
                ELSE [streaming_call EXCEPT !.task = t]
    /\ UNCHANGED <<pipeline, gateway, retry, epc, extend_trace, extend_local,
                   streams, shutting_down, now, marker, tracker_call,
                   auth_call, labels_call, rankings_call, roundtrip_call,
                   file, shared_client, calls, fanout, bridge, pending_file,
                   tracker_op>>

SpecStreaming == Init /\ [][\/ StreamLine \/ AttemptEnd]_vars

\* ------------------ the fan-out functions: task creation and the callbacks
\* query_models_progressive / query_models_parallel is called.  The loop
\* `for model in models` runs without an await: it takes the prompt of each
\* model from custom_messages or from messages (common: messages is not
\* None) and raises ValueError at the
\* first model that has neither.  Until then the progressive function has
\* created a task for every model it passed (asyncio.create_task schedules
\* it), the parallel function has only built coroutine objects.
FanoutCall ==
    /\ fanout.pc = "idle"
    /\ \E entry \in {"query_models_progressive", "query_models_parallel"},
          models \in ModelLists \cup {<<"m1", "m1">>},
          common \in BOOLEAN, custom_messages \in SUBSET ModelIds :
          LET unprompted == {i \in DOMAIN models :
                                 models[i] \notin custom_messages /\ ~common}
              raises == unprompted # {}
              passed == IF raises
                        THEN (CHOOSE i \in unprompted :
                                 \A j \in unprompted : i <= j) - 1
                        ELSE Len(models)
              progressive == entry = "query_models_progressive"
          IN  fanout' =
                 [fanout EXCEPT
                     !.entry = entry,
                     !.models = models,
                     !.pending_models = models,
                     !.tasks = [i \in 1..passed |->
                                   [model |-> models[i],
                                    state |-> IF progressive \/ ~raises
                                              THEN "scheduled"
                                              ELSE "never awaited"]],
                     !.pending = IF raises THEN {} ELSE 1..passed,
                     !.pc = IF raises THEN "raised"
                            ELSE IF ~progressive THEN "gather"
                            ELSE IF models = <<>> THEN "returned"
                            ELSE "wait"]
    /\ UNCHANGED <<pipeline, gateway, retry, epc, extend_trace, extend_local,
                   streams, shutting_down, now, marker, tracker_call,
                   auth_call, labels_call, rankings_call, roundtrip_call,
                   file, shared_client, calls, streaming_call, bridge,
                   pending_file, tracker_op>>

\* the event loop runs a scheduled call: its upstream request is sent; a
\* running call terminates.  The loop does so whenever the fan-out function
\* is suspended in an await, and also after it has raised.
TaskStep ==
    /\ fanout.pc \in {"wait", "gather", "loop", "raised"}
    /\ \E i \in DOMAIN fanout.tasks :
          /\ fanout.tasks[i].state \in {"scheduled", "running"}
          /\ fanout' = [fanout EXCEPT !.tasks[i].state =
                           IF @ = "scheduled" THEN "running" ELSE "done"]
    /\ UNCHANGED <<pipeline, gateway, retry, epc, extend_trace, extend_local,
                   streams, shutting_down, now, marker, tracker_call,
                   auth_call, labels_call, rankings_call, roundtrip_call,
                   file, shared_client, calls, streaming_call, bridge,
                   pending_file, tracker_op>>

\* asyncio.wait(pending, FIRST_COMPLETED) returns the terminated tasks as
\* done; asyncio.gather returns when every call has terminated
AwaitReturns ==
    /\ \/ /\ fanout.pc = "wait"
          /\ \E i \in fanout.pending : fanout.tasks[i].state = "done"
          /\ fanout' =
                [fanout EXCEPT
                    !.done = {i \in fanout.pending :
                                 fanout.tasks[i].state = "done"},
                    !.pending = {i \in fanout.pending :
                                    fanout.tasks[i].state # "done"},
                    !.pc = "loop"]
       \/ /\ fanout.pc = "gather"
          /\ \A i \in DOMAIN fanout.tasks : fanout.tasks[i].state = "done"
          /\ fanout' = [fanout EXCEPT !.pc = "returned"]
    /\ UNCHANGED <<pipeline, gateway, retry, epc, extend_trace, extend_local,
                   streams, shutting_down, now, marker, tracker_call,
                   auth_call, labels_call, rankings_call, roundtrip_call,
                   file, shared_client, calls, streaming_call, bridge,
                   pending_file, tracker_op>>

\* one pass of `for completed_task in done`: pending_models.remove(model),
\* completed_models.append(model), await on_model_complete(model, result),
\* await on_progress(len(completed_models), len(models), copies of the lists)
TaskCompleted ==
    /\ fanout.pc = "loop"
    /\ \E i \in fanout.done :
          LET model == fanout.tasks[i].model
              first == CHOOSE k \in DOMAIN fanout.pending_models :
                          /\ fanout.pending_models[k] = model
                          /\ \A j \in 1..(k - 1) :
                                fanout.pending_models[j] # model
              still_pending ==
                  SubSeq(fanout.pending_models, 1, first - 1)
                  \o SubSeq(fanout.pending_models, first + 1,
                            Len(fanout.pending_models))
              completed_now == Append(fanout.completed_models, model)
              arguments == [model |-> model,
                            completed |-> Len(completed_now),
                            total |-> Len(fanout.models),
                            completed_models |-> completed_now,
                            pending_models |-> still_pending]
          IN  fanout' =
                 [fanout EXCEPT
                     !.pending_models = still_pending,
                     !.completed_models = completed_now,
                     !.callbacks = @ \o
                         <<[cb |-> "on_model_complete"] @@ arguments,
                           [cb |-> "on_progress"] @@ arguments>>,
                     !.done = @ \ {i},
                     !.pc = IF fanout.done # {i} THEN "loop"
                            ELSE IF fanout.pending # {} THEN "wait"
                            ELSE "returned"]
    /\ UNCHANGED <<pipeline, gateway, retry, epc, extend_trace, extend_local,
                   streams, shutting_down, now, marker, tracker_call,
                   auth_call, labels_call, rankings_call, roundtrip_call,
                   file, shared_client, calls, streaming_call, bridge,
                   pending_file, tracker_op>>

SpecFanout == Init /\ [][\/ FanoutCall \/ TaskStep \/ AwaitReturns
                         \/ TaskCompleted]_vars

\* --------------------- _stream_stage1: the queue between callbacks and loop
\* The end sentinel None of the queue is the string "None".
\* on_model_response / on_progress / on_token, called while the collection
\* runs: the event is put on the (unbounded) queue
CallbackPut ==
    /\ bridge.collection = "running"
    /\ Len(bridge.put) < MaxEvents
    /\ \E event \in {"stage1_model_response", "stage1_progress",
                     "stage1_token"} :
          bridge' = [bridge EXCEPT !.event_queue = Append(@, event),
                                   !.put = Append(@, event)]
    /\ UNCHANGED <<pipeline, gateway, retry, epc, extend_trace, extend_local,
                   streams, shutting_down, now, marker, tracker_call,
                   auth_call, labels_call, rankings_call, roundtrip_call,
                   file, shared_client, calls, streaming_call, fanout,
                   pending_file, tracker_op>>

\* variant: the sentinel is put only when the collection returns
RunEnds_NoFinally ==
    /\ bridge.collection = "running"
    /\ \E end \in {"returned", "raised"} :
          bridge' = [bridge EXCEPT
                        !.collection = end,
                        !.event_queue = IF end = "returned"
                                        THEN Append(@, "None") ELSE @]
    /\ UNCHANGED <<pipeline, gateway, retry, epc, extend_trace, extend_local,
                   streams, shutting_down, now, marker, tracker_call,
                   auth_call, labels_call, rankings_call, roundtrip_call,
                   file, shared_client, calls, streaming_call, fanout,
                   pending_file, tracker_op>>

\* run(): stage1_collect_responses returns or raises; finally: the sentinel
\* is put and the task ends
RunEnds ==
    /\ bridge.collection = "running"
    /\ \E end \in {"returned", "raised"} :
          bridge' = [bridge EXCEPT !.collection = end,
                                   !.event_queue = Append(@, "None")]
    /\ UNCHANGED <<pipeline, gateway, retry, epc, extend_trace, extend_local,
                   streams, shutting_down, now, marker, tracker_call,
                   auth_call, labels_call, rankings_call, roundtrip_call,
                   file, shared_client, calls, streaming_call, fanout,
                   pending_file, tracker_op>>

\* one pass of `while True`: event = await event_queue.get(); the sentinel
\* ends the loop and `await task` returns or re-raises what run() raised;
\* any other event is yielded
ConsumerGet ==
    /\ bridge.consumer = "get"
    /\ bridge.event_queue # <<>>
    /\ LET event == Head(bridge.event_queue) IN
       bridge' = [bridge EXCEPT
                     !.event_queue = Tail(@),
                     !.consumed = Append(@, event),
                     !.yielded = IF event = "None" THEN @
                                 ELSE Append(@, event),
                     !.consumer = IF event # "None" THEN "get"
                                  ELSE IF bridge.collection = "raised"
                                  THEN "raised" ELSE "returned"]
    /\ UNCHANGED <<pipeline, gateway, retry, epc, extend_trace, extend_local,
                   streams, shutting_down, now, marker, tracker_call,
                   auth_call, labels_call, rankings_call, roundtrip_call,
                   file, shared_client, calls, streaming_call, fanout,
                   pending_file, tracker_op>>

SpecBridge == Init /\ [][\/ CallbackPut \/ RunEnds \/ ConsumerGet]_vars

\* ------------------------- pending.json of one user, for two conversations
\* The pipelines are coroutines of one event loop; a tracker operation is a
\* synchronous function, so the coroutine that calls it keeps the loop from
\* its load_pending_messages to its save_pending_messages.
\* variant: the operation gives up the loop between its load and its save
PendingLoad_Yield ==
    /\ tracker_op.running = "none"
    /\ \E c \in DOMAIN pending_file,
          op \in {[name |-> "mark_response_pending", data |-> EmptyData],
                  [name |-> "update_pending_progress",
                   data |-> Stage1Data(FullStage1)],
                  [name |-> "update_pending_progress", data |-> ErrorData],
                  [name |-> "clear_pending", data |-> EmptyData]} :
          /\ tracker_op.calls[c] = None
          /\ tracker_op' =
                [tracker_op EXCEPT
                    !.calls[c] = Some([op |-> op, pending |-> pending_file])]
    /\ UNCHANGED <<pipeline, gateway, retry, epc, extend_trace, extend_local,
                   streams, shutting_down, now, marker, tracker_call,
                   auth_call, labels_call, rankings_call, roundtrip_call,
                   file, shared_client, calls, streaming_call, fanout, bridge,
                   pending_file>>

\* the pipeline of conversation c calls mark_response_pending,
\* update_pending_progress or clear_pending:
\* pending = load_pending_messages(user_id)
PendingLoad ==
    /\ tracker_op.running = "none"
    /\ \E c \in DOMAIN pending_file,
          op \in {[name |-> "mark_response_pending", data |-> EmptyData],
                  [name |-> "update_pending_progress",
                   data |-> Stage1Data(FullStage1)],
                  [name |-> "update_pending_progress", data |-> ErrorData],
                  [name |-> "clear_pending", data |-> EmptyData]} :
          /\ tracker_op.calls[c] = None
          /\ tracker_op' =
                [tracker_op EXCEPT
                    !.running = c,
                    !.calls[c] = Some([op |-> op, pending |-> pending_file])]
    /\ UNCHANGED <<pipeline, gateway, retry, epc, extend_trace, extend_local,
                   streams, shutting_down, now, marker, tracker_call,
                   auth_call, labels_call, rankings_call, roundtrip_call,
                   file, shared_client, calls, streaming_call, fanout, bridge,
                   pending_file>>

\* the rest of the operation: the entry of the conversation is set, changed
\* (when it is there) or deleted (when it is there) in the loaded dict, and
\* save_pending_messages writes the whole dict; the operation returns
PendingSave ==
    \E c \in DOMAIN pending_file :
        /\ tracker_op.calls[c] # None
        /\ tracker_op.running \in {c, "none"}
        /\ LET op == tracker_op.calls[c][1].op
               loaded == tracker_op.calls[c][1].pending
           IN  pending_file' =
                  IF op.name = "mark_response_pending"
                  THEN [loaded EXCEPT
                           ![c] = mark_response_pending("council", 1)]
                  ELSE IF ~loaded[c].present THEN pending_file
                  ELSE IF op.name = "update_pending_progress"
                  THEN [loaded EXCEPT
                           ![c] = update_pending_progress(@, op.data)]
                  ELSE [loaded EXCEPT ![c] = clear_pending(@)]
        /\ tracker_op' = [tracker_op EXCEPT !.running = "none",
                                            !.calls[c] = None,
                                            !.conversation = c,
                                            !.before = pending_file]
        /\ UNCHANGED <<pipeline, gateway, retry, epc, extend_trace,
                       extend_local, streams, shutting_down, now, marker,
                       tracker_call, auth_call, labels_call, rankings_call,
                       roundtrip_call, file, shared_client, calls,
                       streaming_call, fanout, bridge>>

SpecPendingFile == Init /\ [][\/ PendingLoad \/ PendingSave]_vars

\* ------------------------------------------------------------------ claims
InTrace(x) == x \in Range(trace)
Count(x) == Cardinality(Indexes(trace, x))
\* every occurrence of x in the trace has an occurrence of y before it
Precedes(y, x) ==
    \A j \in DOMAIN trace :
        trace[j] = x => \E i \in 1..(j - 1) : trace[i] = y
CouncilRun == req.mode = "council"
\* the generator has ended otherwise than by being closed by the client
Ended == pc = "idle" /\ outcome \in {"complete", "error", "escaped"}

\* C1: in every council run the events keep the stage order: stage1_complete
\* comes before any stage2_* event, stage2_complete before any stage3_*
\* event, stage3_complete before metrics_complete; nothing follows a complete
\* or error event; and a run that ended without any exception ended with
\* complete as its last event.
C1_StageOrder ==
    CouncilRun =>
        /\ Precedes("stage1_complete", "stage2_start")
        /\ Precedes("stage1_complete", "stage2_complete")
        /\ Precedes("stage2_complete", "stage3_start")
        /\ Precedes("stage2_complete", "stage3_complete")
        /\ Precedes("stage3_complete", "metrics_complete")
        /\ \A j \in DOMAIN trace :
              trace[j] \in {"complete", "error"} => j = Len(trace)
        /\ (Ended /\ ~InTrace("raise")) =>
              (trace # <<>> /\ Last(trace) = "complete")

\* a resumed run has completed: every stage event was emitted on the way
C1_Witness ==
    /\ CouncilRun
    /\ can_resume
    /\ outcome = "complete"
    /\ InTrace("stage2_complete")
    /\ InTrace("metrics_complete")

\* C2, the state part: a council run that starts with resume_start goes on
\* with stage1_complete and never calls add_user_message,
\* mark_response_pending or Stage 1; any other council run starts with
\* add_user_message, and when it reaches stage1_start the user message is
\* the last stored message and the marker stands for it.
C2_Paths ==
    (CouncilRun /\ trace # <<>>) =>
        IF trace[1] = "resume_start"
        THEN /\ Len(trace) >= 2 => trace[2] = "stage1_complete"
             /\ ~InTrace("add_user_message")
             /\ ~InTrace("mark_response_pending")
             /\ ~InTrace("stage1")
        ELSE /\ trace[1] = "add_user_message"
             /\ InTrace("stage1") =>
                   /\ trace[2] = "mark_response_pending"
                   /\ Count("add_user_message") = 1
                   /\ Count("mark_response_pending") = 1
             /\ pc = "stage1_start" =>
                   /\ Last(messages) = UserMessage(req.content)
                   /\ pending = mark_response_pending("council", req.content)

\* C2, the step part: the run takes the resume path exactly when the request
\* has resume = true and the marker exists with a non-empty stage1 list, and
\* the stage1_complete of a resumed run carries the stored stage1 data.
C2_Entry ==
    /\ (pc = "start" /\ CouncilRun /\ trace' # <<>>) =>
          ((trace'[1] = "resume_start") <=>
              /\ req.resume
              /\ pending.present
              /\ "stage1" \in pending.partial_data.keys
              /\ Len(pending.partial_data.stage1) > 0)
    /\ (pc = "resume_start" /\ pc' = "stage1_complete") =>
          /\ stage1_results' = pending.partial_data.stage1
          /\ UNCHANGED store

\* C2: run_council_pipeline resumes if and only if resume = true and the
\* marker has a non-empty stage1 list; the resumed run emits resume_start,
\* stage1_complete and skips the user message, the pending mark and Stage 1;
\* every other run is a fresh run.
C2_ResumeIff == [](C2_Paths) /\ [][C2_Entry]_vars

\* a resumed run has re-emitted stage1_complete
C2_Witness ==
    /\ CouncilRun
    /\ can_resume
    /\ pc = "stage1_complete"
    /\ trace = <<"resume_start", "stage1_complete">>

ClearOnlyRaised ==
    \A j \in DOMAIN trace :
        trace[j] = "clear_pending" =>
            j < Len(trace) /\ trace[j + 1] = "raise"
\* the run has marked the conversation pending, or resumed from its marker
Marked ==
    \/ can_resume
    \/ \E j \in DOMAIN trace :
          /\ trace[j] = "mark_response_pending"
          /\ j < Len(trace)
          /\ trace[j + 1] # "raise"
\* a run that completes calls clear_pending once, after add_unified_message
\* has stored the message and right before the complete event
ClearOnSuccess ==
    InTrace("complete") =>
        /\ Count("clear_pending") = 1
        /\ Count("add_unified_message") = 1
        /\ \E j \in 2..(Len(trace) - 1) :
              /\ trace[j - 1] = "add_unified_message"
              /\ trace[j] = "clear_pending"
              /\ trace[j + 1] = "complete"
        /\ pc = "complete" =>
              (~pending.present /\ Last(messages) = FinalMessage)

C5_MarkerXorMessage ==
    pc = "idle" =>
        ~(/\ pending.present
          /\ messages # <<>>
          /\ Last(messages).role = "assistant")

Alternates(msgs) ==
    \A i \in DOMAIN msgs :
        msgs[i].role = IF i % 2 = 1 THEN "user" ELSE "assistant"

\* C6: after any sequence of operations the stored messages alternate user,
\* assistant, user, ... and, whenever a marker is present, the last stored
\* message is the user message the marker stands for.
C6_Alternation ==
    pc = "idle" =>
        /\ Alternates(messages)
        /\ pending.present =>
              /\ messages # <<>>
              /\ Last(messages) = UserMessage(pending.user_content)

C8_ChairmanRetriedOnce ==
    (CouncilRun /\ pc = "stage3_complete") =>
        /\ Len(chairman.replies) =
              (IF chairman.replies[1] = "None" THEN 2 ELSE 1)
        /\ Count("chairman") = Len(chairman.replies)
        /\ StartsWithError(stage3_result.response) =>
              (/\ Len(chairman.replies) = 2
               /\ \A i \in DOMAIN chairman.replies :
                     chairman.replies[i] = "None")

\* C9: the prompt sent to the chairman contains no model identifier of a
\* council member.
C9_PromptAnonymous ==
    \A i \in DOMAIN chairman.prompt : chairman.prompt[i] \notin ModelIds

\* the calls that can raise once Stage 3 has returned
CallsAfterStage3 ==
    {"update_pending_progress", "update_conversation_title",
     "add_unified_message", "clear_pending"}
\* the tail of the trace from the stage3_complete event on, events only
AfterStage3 ==
    LET i == CHOOSE j \in DOMAIN trace : trace[j] = "stage3_complete"
    IN  Restrict(SubSeq(trace, i, Len(trace)),
                 {"stage3_complete", "metrics_complete", "title_complete",
                  "complete", "error"})

\* C10: a council run whose synthesis starts with "Error:" is treated as
\* completed: stage3_complete is emitted and, unless a later call raises, so
\* are metrics_complete and complete, with no error event; the stored
\* assistant message has the stage-1 and stage-2 results as its two rounds
\* and the Error synthesis, and the marker is cleared.
C10_ErrorSynthesisPersisted ==
    (CouncilRun /\ StartsWithError(stage3_result.response)) =>
        /\ InTrace("stage3_complete")
        /\ \A j \in DOMAIN trace :
              trace[j] = "error" =>
                  (j > 2 /\ trace[j - 1] = "update_pending_progress"
                         /\ trace[j - 2] = "raise")
        /\ \A j \in DOMAIN trace :
              trace[j] = "raise" =>
                  (j > 1 /\ trace[j - 1] \in CallsAfterStage3)
        /\ (Ended /\ ~InTrace("raise")) => outcome = "complete"
        /\ InTrace("complete") =>
              /\ ~InTrace("error")
              /\ AfterStage3 \in
                    {<<"stage3_complete", "metrics_complete", "complete">>,
                     <<"stage3_complete", "metrics_complete",
                       "title_complete", "complete">>}
        /\ pc = "complete" =>
              /\ Len(messages) >= 1
              /\ Last(messages).role = "assistant"
              /\ Last(messages).rounds = <<stage1_results, stage2_results>>
              /\ StartsWithError(Last(messages).synthesis.response)
              /\ ~pending.present

\* a run with an Error synthesis has emitted complete
C10_Witness ==
    /\ CouncilRun
    /\ StartsWithError(stage3_result.response)
    /\ pc = "complete"
    /\ stage1_results # <<>>

Terminated(m) == task[m].state = "done"
FanOut == call.entry \in {"stage1_collect_responses", "query_models_progressive"}
Progressive == call.entry = "query_models_progressive"
\* attempt outcomes after which the claims expect another attempt
Transient(o) ==
    \/ o \in {"408", "429", "502", "503"}
    \/ Streaming(call) /\ o = "timeout"
\* the value a call is expected to return after its last attempt ended with o
Expected(m, o) == IF o = "200" THEN ResultDict(m) ELSE NoneValue

\* C12: stage1_collect_responses called with an empty council list raises
\* ValueError and makes no upstream call (it queries no other list).
C12_EmptyCouncilRejected ==
    (call.entry = "stage1_collect_responses" /\ call.models = <<>>) =>
        /\ gpc = "raised"
        /\ DOMAIN task = {}

\* C13: every call makes at most 3 upstream attempts; every attempt but the
\* last ended with 408, 429, 502, 503 (or, streaming, a timeout); the call
\* has returned exactly when its last attempt succeeded, ended otherwise
\* than transiently, or was the third; it returns the result of a 200 and a
\* failure otherwise; and the waits so far are 1 s, then 2 s.
C13_RetryPolicy ==
    \A m \in DOMAIN task :
        LET u == task[m].upstream
            n == Len(u)
        IN  /\ n <= 3
            /\ \A k \in 1..(n - 1) : Transient(u[k])
            /\ Terminated(m) <=> (n >= 1 /\ (~Transient(u[n]) \/ n = 3))
            /\ Terminated(m) => task[m].result = Expected(m, u[n])
            /\ Len(task[m].sleeps) = (IF Terminated(m) THEN n - 1 ELSE n)
            /\ \A k \in DOMAIN task[m].sleeps : task[m].sleeps[k] = 2 ^ (k - 1)
            /\ u = <<"429", "429", "200">> => task[m].result = ResultDict(m)

\* 429, 429, 200: success after exactly three upstream attempts
C13_Witness ==
    \E m \in DOMAIN task :
        /\ task[m].upstream = <<"429", "429", "200">>
        /\ task[m].sleeps = <<1, 2>>
        /\ task[m].result = ResultDict(m)
        /\ gpc = "returned"

\* C14: a non-streaming call whose first attempt ends with a non-retryable
\* status, a timeout or an unexpected exception has made exactly one
\* upstream attempt, has not slept and has returned a failure.
C14_NoRetry ==
    \A m \in DOMAIN task :
        (/\ ~Streaming(call)
         /\ task[m].upstream # <<>>
         /\ task[m].upstream[1] \notin {"200", "408", "429", "502", "503"}) =>
            /\ Terminated(m)
            /\ Len(task[m].upstream) = 1
            /\ task[m].sleeps = <<>>
            /\ task[m].result = NoneValue

\* query_model has returned a failure after one attempt that timed out
C14_Witness ==
    /\ call.entry = "query_model"
    /\ gpc = "returned"
    /\ returned = NoneValue
    /\ \E m \in DOMAIN task : task[m].upstream = <<"timeout">>

\* the status and the category the ModelError of a failed call is to carry
ClaimedStatus(o) == IF o \in UpstreamStatuses THEN o ELSE "None"
ClaimedCategory(o) ==
    IF o = "402" THEN "billing"
    ELSE IF o = "401" THEN "auth"
    ELSE IF o = "429" THEN "rate_limit"
    ELSE IF o \in {"408", "502", "503"} THEN "transient"
    ELSE IF o = "timeout" THEN "timeout"
    ELSE "unknown"

\* C15: a call that failed returns a ModelError value, told apart by its
\* tag from a result and from None, that carries the model id, the upstream
\* status of the last attempt (None without one) and its category.
C15_ModelErrorReturned ==
    \A m \in DOMAIN task :
        (/\ Terminated(m)
         /\ task[m].upstream # <<>>
         /\ Last(task[m].upstream) # "200") =>
            LET r == task[m].result IN
            /\ r.tag = "ModelError"
            /\ {"model", "status_code", "category"} \subseteq DOMAIN r
            /\ r.model = m
            /\ r.status_code = ClaimedStatus(Last(task[m].upstream))
            /\ r.category = ClaimedCategory(Last(task[m].upstream))

\* C16: query_models_progressive has returned only when every call has
\* terminated, and the returned map has exactly the models of the input list
\* as its keys, with the result of a successful call and the failure value
\* of a failed one.
C16_ProgressiveReturnsAll ==
    (Progressive /\ gpc = "returned") =>
        /\ \A m \in Range(call.models) : Terminated(m)
        /\ DOMAIN returned = Range(call.models)
        /\ \A m \in Range(call.models) :
              returned[m] = Expected(m, Last(task[m].upstream))

\* two models were queried: one call failed, one succeeded
C16_Witness ==
    /\ Progressive
    /\ gpc = "returned"
    /\ call.models = <<"m1", "m2">>
    /\ returned["m1"] = NoneValue
    /\ returned["m2"] = ResultDict("m2")
    /\ completed_models = <<"m2", "m1">>

\* C17: on_model_complete is invoked for the models in the order in which
\* their calls terminated, also when several terminate within one wait.
C17_CallbackOrder ==
    Progressive =>
        \A i \in DOMAIN completed_models : completed_models[i] = completion[i]

\* C18: in a fan-out every call runs to its own outcome whatever happens to
\* the others: a call that has terminated made at least one attempt and
\* returns what its own last attempt gives; when the fan-out has returned,
\* every call has terminated, the map holds each call's own value, and
\* (progressive) the completion callback fired once for each model.
C18_FailureIsolated ==
    FanOut =>
        /\ \A m \in DOMAIN task :
              Terminated(m) =>
                  /\ task[m].upstream # <<>>
                  /\ task[m].result = Expected(m, Last(task[m].upstream))
        /\ gpc = "returned" =>
              /\ \A m \in DOMAIN task :
                    /\ Terminated(m)
                    /\ m \in DOMAIN results
                    /\ results[m] = task[m].result
                    /\ Progressive =>
                          Cardinality(Indexes(completed_models, m)) = 1

\* the token callback of the first call to end raised; the other call
\* succeeded afterwards and both are in the returned map
C18_Witness ==
    /\ Progressive
    /\ gpc = "returned"
    /\ call.models = <<"m1", "m2">>
    /\ completion = <<"m1", "m2">>
    /\ Last(task["m1"].upstream) = "on_token_raises"
    /\ returned["m1"] = NoneValue
    /\ returned["m2"] = ResultDict("m2")

\* ------------------------------------------------------ retry properties
RetryEventTypes ==
    {"error", "stage3_start", "stage3_complete", "metrics_complete", "complete"}
\* the events the retry generator has yielded
RetryEvents == Restrict(retry_trace, RetryEventTypes)
RetryCalled(x) == x \in Range(retry_trace)
IsPrefix(s, t) == Len(s) <= Len(t) /\ SubSeq(t, 1, Len(s)) = s

\* one of the cases in which the retry is to be refused: the conversation
\* does not exist, it has no council assistant message, the stage-1 or
\* stage-2 data of its last council message is missing or empty, or no user
\* message precedes that message
RetryRefused ==
    LET k == LastCouncilIndex(messages) IN
    \/ retry_local.conversation_id = "missing"
    \/ k = 0
    \/ Len(messages[k].rounds) < 2
    \/ messages[k].rounds[1] = <<>>
    \/ messages[k].rounds[2] = <<>>
    \/ \A j \in 1..(k - 1) : messages[j].role # "user"

\* C19: in each of the refused cases retry_stage3_pipeline yields exactly
\* one event, an error, and stops, without calling the chairman and without
\* writing to storage.
C19_RetryRefusedWithOneError ==
    (rpc # "idle" /\ RetryRefused) =>
        /\ RetryEvents = <<"error">>
        /\ rpc \in {"error", "returned"}
        /\ ~RetryCalled("stage3_synthesize_final")
        /\ ~RetryCalled("chairman")
        /\ ~RetryCalled("update_last_council_stage3")

RetrySucceeded ==
    <<"stage3_start", "stage3_complete", "metrics_complete", "complete">>
RetryFailed == <<"stage3_start", "stage3_complete", "error">>

\* C20: when the retry is not refused (and no storage call raises) the
\* chairman path is called once and no council peer is queried; a synthesis
\* that does not start with "Error:" gives the events stage3_start,
\* stage3_complete, metrics_complete, complete and one
\* update_last_council_stage3 call, after which the last council message
\* holds the new synthesis and the metrics aggregated over its rounds; an
\* "Error:" synthesis gives stage3_start, stage3_complete, error and no
\* storage call.
C20_RetrySynthesis ==
    (rpc # "idle" /\ ~RetryRefused /\ ~RetryCalled("raise")) =>
        LET s3 == retry_local.stage3_result
            k == LastCouncilIndex(messages)
            synthesized == RetryCalled("stage3_complete")
        IN  /\ ~RetryCalled("stage1") /\ ~RetryCalled("stage2")
            /\ Cardinality(Indexes(retry_trace, "stage3_synthesize_final"))
                  = (IF synthesized THEN 1 ELSE 0)
            /\ ~synthesized => RetryEvents = <<"stage3_start">>
            /\ (synthesized /\ ~StartsWithError(s3.response)) =>
                  /\ IsPrefix(RetryEvents, RetrySucceeded)
                  /\ rpc = "returned" => RetryEvents = RetrySucceeded
                  /\ RetryCalled("complete") =>
                        /\ Cardinality(Indexes(retry_trace,
                               "update_last_council_stage3")) = 1
                        /\ messages[k].synthesis = s3
                        /\ messages[k].metrics =
                               aggregate_metrics(messages[k].rounds[1],
                                                 messages[k].rounds[2], s3)
            /\ (synthesized /\ StartsWithError(s3.response)) =>
                  /\ IsPrefix(RetryEvents, RetryFailed)
                  /\ rpc = "returned" => RetryEvents = RetryFailed
                  /\ ~RetryCalled("update_last_council_stage3")

\* a retry changes no rounds, and it changes the stored messages only in the
\* step that yields complete
RetryKeepsRounds ==
    rpc # "idle" =>
        /\ Len(messages') = Len(messages)
        /\ \A i \in DOMAIN messages : messages'[i].rounds = messages[i].rounds
        /\ messages' # messages => rpc' = "complete"

\* the frame of a retry: the rounds of every stored message stay as they are
RetryFrame == [][RetryKeepsRounds]_vars

\* C21: when an extend has yielded complete, the conversation has as many
\* messages as at the request and the arena message holds the k rounds it had
\* at the request, unchanged (number, type, participants, models, content),
\* followed by one round numbered k+1 of type rebuttal that was asked for
\* with total-rounds k+1, and the new synthesis; participants were queried
\* for round k+1 only.
C21_ExtendAppendsOneRound ==
    epc = "complete" =>
        LET k == Len(extend_local.existing_rounds)
            msg == messages[extend_local.last_arena_msg]
        IN  /\ Len(messages) = extend_local.message_count
            /\ msg.role = "assistant" /\ msg.mode = "arena"
            /\ Len(msg.rounds) = k + 1
            /\ \A j \in 1..k : msg.rounds[j] = extend_local.existing_rounds[j]
            /\ msg.rounds[k + 1].round_number = k + 1
            /\ msg.rounds[k + 1].round_type = "rebuttal"
            /\ extend_local.new_total_rounds = k + 1
            /\ extend_local.queried = <<k + 1>>
            /\ msg.synthesis = extend_local.synthesis

ArenaRun == req.mode = "arena"
ArenaEventTypes ==
    {"arena_start", "round_start", "round_complete", "synthesis_start",
     "synthesis_complete", "metrics_complete", "title_complete", "complete",
     "error"}
\* the arena events of the run so far, the cross-cutting web search events
\* left out
ArenaEvents == Restrict(trace, ArenaEventTypes)
\* the event sequence of a run of N rounds
ArenaSequence(N, with_title) ==
    <<"arena_start">>
    \o [i \in 1..(2 * N) |->
           IF i % 2 = 1 THEN "round_start" ELSE "round_complete"]
    \o <<"synthesis_start", "synthesis_complete", "metrics_complete">>
    \o (IF with_title THEN <<"title_complete">> ELSE <<>>)
    \o <<"complete">>
ClaimedRoundType(k) == IF k = 1 THEN "opening" ELSE "rebuttal"
\* the events of an arena run without exception are in the order of the
\* protocol, the whole sequence once complete is yielded
ArenaOrder ==
    (ArenaRun /\ ~InTrace("raise")) =>
        /\ IsPrefix(ArenaEvents, ArenaSequence(req.round_count, title_task))
        /\ pc = "complete" =>
              ArenaEvents = ArenaSequence(req.round_count, title_task)
\* a round is started only after the fan-out of every earlier round returned
RoundsInTurn ==
    ArenaRun =>
        \A j \in DOMAIN trace :
            trace[j] = "round_start" =>
                Cardinality({i \in 1..(j - 1) : trace[i] = "round"})
                    = Cardinality({i \in 1..(j - 1) : trace[i] = "round_start"})
\* the message a completed arena run stored has N rounds, opening first
PersistedTypes ==
    (ArenaRun /\ pc = "complete") =>
        /\ Last(messages).mode = "arena"
        /\ Len(Last(messages).rounds) = req.round_count
        /\ \A k \in DOMAIN Last(messages).rounds :
              /\ Last(messages).rounds[k].round_number = k
              /\ Last(messages).rounds[k].round_type = ClaimedRoundType(k)

\* C22: an arena run in which no exception occurs yields arena_start, then
\* round_start(k), round_complete(k) for k = 1..N in turn, then
\* synthesis_start, synthesis_complete, metrics_complete, title_complete
\* when a title was asked for, and complete; round 1 is of type opening and
\* the later rounds of type rebuttal in the round events and in the stored
\* message; a round starts only after the earlier fan-outs have returned.
C22_ArenaProtocol ==
    /\ ArenaOrder
    /\ RoundsInTurn
    /\ PersistedTypes
    /\ ArenaRun =>
          \A j \in DOMAIN round_events :
              /\ round_events[j].round_number = (j + 1) \div 2
              /\ round_events[j].type =
                    (IF j % 2 = 1 THEN "round_start" ELSE "round_complete")
              /\ round_events[j].round_type =
                    ClaimedRoundType(round_events[j].round_number)

\* the generator of stream r exists and has not ended
InFlight(r) ==
    streams[r].spc \in {"start", "running", "progressed", "complete", "error"}

\* C23: a stream request sent while a turn of the conversation is in flight
\* is rejected and gets no generator, so at most one generator at a time
\* appends messages and writes the marker.
C23_OverlapRejected ==
    \A r1, r2 \in 1..MaxStreams :
        (InFlight(r1) /\ InFlight(r2)) => r1 = r2

\* C26: the frames an open stream yields once initiate_shutdown has been
\* called are one server_shutdown frame, the last of the stream, after
\* which its generator has ended.
C26_ShutdownEvent ==
    \A r \in 1..MaxStreams :
        streams[r].late # <<>> =>
            /\ streams[r].late = <<"server_shutdown">>
            /\ Last(streams[r].frames) = "server_shutdown"
            /\ ~InFlight(r)

\* is_shutting_down, once true, stays true
ShutdownIsFinal == [][shutting_down => shutting_down']_vars

\* C24: update_pending_progress on an existing marker merges its argument
\* into partial_data (the old keys that are not in the argument keep their
\* values, the keys of the argument take the new ones), sets last_update to
\* the instant of the call and leaves started_at, mode and user_content.
C24_ProgressMerged ==
    (tracker_call.op = "update_pending_progress"
        /\ tracker_call.before.present) =>
        LET old == tracker_call.before.partial_data
            d == tracker_call.partial_data
            new == marker.partial_data
        IN  /\ new.keys = old.keys \cup d.keys
            /\ new.stage1 = (IF "stage1" \in d.keys THEN d.stage1
                             ELSE old.stage1)
            /\ new.stage2 = (IF "stage2" \in d.keys THEN d.stage2
                             ELSE old.stage2)
            /\ new.rounds = (IF "rounds" \in d.keys THEN d.rounds
                             ELSE old.rounds)
            /\ marker.last_update = Time(tracker_call.at)
            /\ marker.started_at = tracker_call.before.started_at
            /\ marker.mode = tracker_call.before.mode
            /\ marker.user_content = tracker_call.before.user_content

\* C25: is_pending_stale returns true exactly when last_update is missing
\* or unparseable or lies more than the threshold before the instant of the
\* call, whatever started_at is.
C25_StaleIff ==
    tracker_call.op = "is_pending_stale" =>
        LET last_update == tracker_call.before.last_update IN
        tracker_call.result =
            (\/ last_update.kind # "time"
             \/ tracker_call.at - last_update.at
                    > tracker_call.timeout_seconds)

\* C27: with authentication enabled, a request whose socket peer is not in
\* the trusted-proxy allowlist gets no user, whatever its headers are.
C27_UntrustedPeerAnonymous ==
    (/\ auth_call.called
     /\ auth_call.auth_enabled
     /\ ~is_trusted_ip(auth_call.request.client)) =>
        auth_call.user = NoUser

\* the n-th label (from 1) of the sequence A..Z, AA, AB, ..., AZ, BA, ...
RECURSIVE ClaimedLabel(_)
ClaimedLabel(n) ==
    IF n <= 26 THEN <<64 + n>>
    ELSE ClaimedLabel((n - 1) \div 26) \o <<65 + ((n - 1) % 26)>>

\* C28: the labels given to K responses are pairwise distinct, are made of
\* uppercase letters only and follow A..Z, AA, AB, ...; the 27th is AA and
\* the 28th is AB.
C28_LabelsAlphabetic ==
    labels_call.site # "none" =>
        LET labels == labels_call.labels IN
        /\ Len(labels) = labels_call.count
        /\ \A i, j \in DOMAIN labels : labels[i] = labels[j] => i = j
        /\ \A i \in DOMAIN labels :
              /\ \A k \in DOMAIN labels[i] : labels[i][k] \in 65..90
              /\ labels[i] = ClaimedLabel(i)
        /\ Len(labels) >= 27 => labels[27] = <<65, 65>>
        /\ Len(labels) >= 28 => labels[28] = <<65, 66>>

\* C29: the entries calculate_aggregate_rankings returns are in ascending
\* order of average rank, and every position that enters an average is an
\* integer from 1 to N, the number of labels of the map, also when a parsed
\* ranking names unknown labels or repeats a label.
C29_PositionsInRange ==
    rankings_call.called =>
        /\ \A i, j \in DOMAIN rankings_call.aggregate :
              i <= j => rankings_call.aggregate[i].average_rank
                            <= rankings_call.aggregate[j].average_rank
        /\ \A i \in DOMAIN rankings_call.model_positions :
              rankings_call.model_positions[i].position
                  \in 1..rankings_call.labels

\* C30: from_dict(to_dict(x)) equals x for every Round, Synthesis and
\* DeliberationResult x, also with an empty parsed_ranking list, an empty
\* reasoning_details string, a metrics object of zeros, an empty provider
\* and a round_type given as a plain string.
C30_RoundTripIdentity ==
    roundtrip_call.called =>
        LET x == roundtrip_call.x
        IN  /\ ResultEq(DeliberationResult_from_dict(
                            DeliberationResult_to_dict(x)), x)
            /\ ResultEq(roundtrip_call.y, x)
            /\ \A i \in DOMAIN x.rounds :
                  RoundEq(Round_from_dict(Round_to_dict(x.rounds[i])),
                          x.rounds[i])
            /\ x.synthesis # None =>
                  Synthesis_from_dict(Synthesis_to_dict(x.synthesis[1]))
                      = x.synthesis[1]

\* C31: migration of legacy messages happens only in memory: after any
\* sequence of update_conversation_title, remove_last_user_message,
\* add_user_message and add_unified_message the legacy assistant message of
\* the file is still stored in its legacy form, unchanged.
C31_LegacyStaysLegacy ==
    /\ Len(file.messages) >= 2
    /\ file.messages[2].unified = None
    /\ file.messages[2].legacy =
           Some([stage1 |-> FullStage1, stage2 |-> FullStage2,
                 stage3 |-> "Synthesis result"])

\* C32: in a council run the title call is started if and only if
\* is_first_message holds and the run is not resumed; a run that reaches
\* complete has then emitted title_complete exactly once, after stage2_start
\* and before complete, and has updated the title before it appended the
\* assistant message; otherwise the call is never made and title_complete
\* never appears.
C32_TitleOnFirstMessage ==
    CouncilRun =>
        LET wanted == req.is_first_message /\ ~can_resume
        IN  /\ InTrace("generate_conversation_title") => wanted
            /\ InTrace("stage2_start") =>
                  (InTrace("generate_conversation_title") <=> wanted)
            /\ Count("generate_conversation_title") <= 1
            /\ ~wanted => /\ ~InTrace("title_complete")
                          /\ ~InTrace("update_conversation_title")
            /\ Precedes("stage2_start", "title_complete")
            /\ Precedes("update_conversation_title", "title_complete")
            /\ InTrace("title_complete") =>
                  ~\E i, j \in DOMAIN trace :
                      /\ i < j
                      /\ trace[i] = "add_unified_message"
                      /\ trace[j] \in {"update_conversation_title",
                                        "title_complete"}
            /\ outcome = "complete" =>
                  /\ Count("title_complete") = (IF wanted THEN 1 ELSE 0)
                  /\ Precedes("title_complete", "complete") \/ ~wanted
                  /\ wanted => title = "generated"

\* a first message was answered and the conversation got its title
C32_Witness ==
    /\ CouncilRun
    /\ outcome = "complete"
    /\ req.is_first_message
    /\ InTrace("title_complete")
    /\ InTrace("add_unified_message")

\* C33: every gateway call runs under the timeout that was passed to it,
\* whatever timeout the shared client was created with by an earlier call.
C33_TimeoutInEffect ==
    \A i \in DOMAIN calls : calls[i].in_effect = calls[i].timeout

\* C34: the result of a streaming call holds the deltas of its last attempt
\* only, joined in the order received, and the usage of that attempt (0
\* without a usage block); what failed attempts received is discarded.
C34_FailedDeltasDiscarded ==
    streaming_call.result # None =>
        LET last == Last(streaming_call.received)
        IN  /\ streaming_call.result[1].content = Join(last.deltas)
            /\ streaming_call.result[1].total_tokens =
                   (IF last.usage = None THEN 0 ELSE last.usage[1])

\* a call that succeeded after an attempt that had received a delta and a
\* usage block before it timed out
C34_Witness ==
    /\ streaming_call.result # None
    /\ Len(streaming_call.received) >= 2
    /\ streaming_call.received[1].deltas # <<>>
    /\ streaming_call.received[1].usage # None
    /\ Last(streaming_call.received).deltas # <<>>

\* C35: query_models_progressive over N models calls on_model_complete
\* exactly once per model and on_progress exactly N times, with completed =
\* 1, ..., N in this order and total = N; the two lists of every on_progress
\* call are disjoint and together hold exactly the input models; the
\* progress call of a model follows that model's completion callback.
C35_ProgressCallbacks ==
    fanout.entry = "query_models_progressive" =>
        LET IsProgress(c) == c.cb = "on_progress"
            progress == SelectSeq(fanout.callbacks, IsProgress)
            N == Len(fanout.models)
        IN  /\ \A k \in DOMAIN progress :
                  /\ progress[k].completed = k
                  /\ progress[k].total = N
                  /\ Range(progress[k].completed_models)
                        \cap Range(progress[k].pending_models) = {}
                  /\ Range(progress[k].completed_models)
                        \cup Range(progress[k].pending_models)
                        = Range(fanout.models)
                  /\ Len(progress[k].completed_models)
                        + Len(progress[k].pending_models) = N
            /\ \A j \in DOMAIN fanout.callbacks :
                  IsProgress(fanout.callbacks[j]) =>
                      /\ j > 1
                      /\ fanout.callbacks[j - 1].cb = "on_model_complete"
                      /\ fanout.callbacks[j - 1].model
                            = Last(fanout.callbacks[j].completed_models)
            /\ fanout.pc = "returned" =>
                  /\ Len(progress) = N
                  /\ \A m \in Range(fanout.models) :
                        Cardinality({j \in DOMAIN fanout.callbacks :
                            /\ fanout.callbacks[j].cb = "on_model_complete"
                            /\ fanout.callbacks[j].model = m}) = 1

\* C38: when a fan-out function has raised the missing-prompt error, no call
\* of a model that precedes the offending one is scheduled, in flight or done.
C38_NoCallOnMissingPrompt ==
    fanout.pc = "raised" =>
        \A i \in DOMAIN fanout.tasks :
            fanout.tasks[i].state \notin {"scheduled", "running", "done"}

\* C36: a stream that has ended has ended with exactly one terminal event,
\* complete or error, as its last event, and no exception has left the
\* generator, also when storage calls fail, the marker write of the
\* exception handler included.
C36_OneTerminalEvent ==
    Ended =>
        /\ outcome # "escaped"
        /\ Last(trace) \in {"complete", "error"}
        /\ Count("complete") + Count("error") = 1

\* C37: the consumer of _stream_stage1 yields the queued events in queue
\* order and never waits on an empty queue once the collection has ended;
\* when it has ended, every event put by a callback has been yielded, the
\* sentinel was the last item consumed, and it ended by re-raising exactly
\* when the collection raised.
C37_BridgeDrains ==
    /\ bridge.yielded = SubSeq(bridge.put, 1, Len(bridge.yielded))
    /\ bridge.put = bridge.yielded \o SelectSeq(bridge.event_queue,
                                         LAMBDA e : e # "None")
    /\ bridge.consumer = "get" /\ bridge.event_queue = <<>>
          => bridge.collection = "running"
    /\ bridge.consumer # "get" =>
          /\ bridge.yielded = bridge.put
          /\ bridge.event_queue = <<>>
          /\ Last(bridge.consumed) = "None"
          /\ bridge.consumed = Append(bridge.put, "None")
          /\ bridge.consumer = bridge.collection

\* the collection raised with events queued; they were yielded before the
\* exception reached the pipeline
C37_Witness ==
    /\ bridge.consumer = "raised"
    /\ Len(bridge.yielded) >= 2

\* C39: the message retry_stage3_pipeline takes its stage data from is the
\* most recent council message of the stored list, the one that
\* update_last_council_stage3 modifies, and the user query is the content of
\* the nearest user message before it, whatever the order of the messages.
C39_RetryReadsLastCouncilMessage ==
    (rpc = "stage3_start" /\ retry_trace = <<"get_conversation", "stage3_start">>) =>
        LET k == LastCouncilIndex(messages)
            users == {j \in 1..(k - 1) : messages[j].role = "user"}
        IN  /\ retry_local.last_council_msg = k
            /\ retry_local.stage1_results = messages[k].rounds[1]
            /\ retry_local.stage2_results = messages[k].rounds[2]
            /\ users # {}
            /\ retry_local.user_query =
                  messages[CHOOSE j \in users : \A i \in users : i <= j].content

====
